---- MODULE Spec2Model ----
(***************************************************************************)
(* The acquisition pipeline of redditbg: the fetcher engine                *)
(* (Fetcher::fetch_toplevel / fetch_multiple / fetch_one), the dedup       *)
(* ledger (PersistentSet), the image store and the picker that retires     *)
(* stored images.                                                          *)
(*                                                                         *)
(* The repository carries two revisions of the fetcher.  "module" is       *)
(* src/fetcher/mod.rs with the gallery parsers src/fetcher/imgur.rs and    *)
(* src/fetcher/reddit_gallery.rs; "flat" is src/fetcher.rs with the        *)
(* flat-file PersistentSet of src/utils.rs.  The variable `revision` is    *)
(* fixed by Init and selects the code every action follows.                *)
(***************************************************************************)
EXTENDS Integers, Sequences, FiniteSets, TLC

\* ------------------------------------------------------------------ bounds
\* Width of the window of one fetch_multiple call: buffer_unordered(25) in
\* fetcher/mod.rs:211 and fetcher.rs:256, scaled down.
BufferWidth == 2
\* MAX_CACHED (fetcher/mod.rs:25, fetcher.rs:21) is 25, scaled down.
MaxCached == 2
\* Number of acquisition runs explored.
MaxRuns == 2

\* ------------------------------------------------------------------- world
Images == {"a", "b", "c", "x"}
Galleries == {"g", "h"}
Urls == Images \cup Galleries

\* gallery.media / the mediaMetadata urls of a gallery page.  k, s, p and q
\* are pages of one member: k lists an image, s lists itself, p and q list
\* each other.
Members(u) == CASE u = "g" -> <<"a", "b", "c">>
                [] u = "h" -> <<"g">>
                [] u = "k" -> <<"a">>
                [] u = "s" -> <<"s">>
                [] u = "p" -> <<"q">>
                [] u = "q" -> <<"p">>
                [] OTHER   -> <<>>

\* One child of a listing page: data.url and data.over_18 ("absent" when the
\* child has no such field).
Child(u, o) == [url |-> u, over_18 |-> o]
\* the `after` of a page that has none, and Posts.next_page_id = None
NoToken == "none"
\* One page of the listing as reddit answers it: whether the JSON has
\* data.children at all, the children and data.after.
PageJson(children, after) == [data |-> TRUE, children |-> children, after |-> after]
NoData == [data |-> FALSE, children |-> <<>>, after |-> NoToken]
\* What reddit answers in one run, by the `after` that is asked for.
Feeds == {
    [none |-> PageJson(<<Child("a", "false"), Child("a", "false")>>, NoToken)],
    [none |-> PageJson(<<Child("b", "false"), Child("x", "true"),
                         Child("a", "false")>>, "t1"),
     t1   |-> PageJson(<<Child("c", "false")>>, NoToken)],
    [none |-> PageJson(<<Child("g", "false")>>, NoToken)],
    [none |-> PageJson(<<Child("a", "false"), Child("b", "absent"),
                         Child("g", "false")>>, "t1"),
     t1   |-> PageJson(<<Child("x", "true")>>, NoToken)],
    [none |-> PageJson(<<Child("h", "false")>>, NoToken)],
    [none |-> NoData] }

\* What a GET of u can come back with: no body at all after the backoff
\* gave up, a decodable image of the display's ratio, a decodable image of
\* another ratio, an imgur gallery page, a reddit gallery page, anything else.
Bodies(u) == IF u \in Galleries THEN {"neterr", "imgur", "reddit", "junk"}
                                ELSE {"neterr", "image", "ratio", "junk"}

\* image_hasher's perceptual hash of the image behind a reference
PHash(u) == IF u \in {"a", "b"} THEN "h1" ELSE "h2"

VARIABLES
    revision,      \* "module" | "flat"
    phase,         \* "idle" | "fetch" | "scan"
    runs,          \* acquisition runs started so far
    listing,       \* the references the listing stream has emitted in this run
    posts,         \* the Posts stream of this run and the feed behind it
    need,          \* Fetcher.need
    gotten,        \* Fetcher.gotten
    downloaded,    \* Fetcher.downloaded (keys)
    invalid,       \* Fetcher.invalid (keys)
    persisted,     \* the ledger storage: [downloaded, invalid]
    channel,       \* urls sent on invalid_tx and not yet received
    tasks,         \* the fetch_one futures of this run, by path
    files,         \* stems of the files in the images directory
    orphans,       \* urls whose blocking write outlives its dropped future
    applied,       \* AppliedImages of the picker
    startLedger,   \* urls the ledger held when the run was constructed
    stored,        \* urls whose image has appeared under its final name
    storedBefore,  \* `stored` as it was when the current run started
    observed,      \* a completion check of this run saw gotten >= need
    lastWrite,     \* the url whose blocking write ran to its end in the last step
    result,        \* what the last call of fetch() returned: none yet, ok, err
    blk,           \* one spawn_blocking closure followed statement by statement
    retry,         \* one with_backoff call followed attempt by attempt
    one,           \* one fetch_one call followed classifier by classifier
    led,           \* one PersistentSet and its file followed call by call
    pk,            \* the picker followed directory entry by directory entry
    nest,          \* one chain of nested fetch_one calls followed call by call
    app            \* the main loop and find_new_background followed by statement

\* the acquisition pipeline
engine == << revision, phase, runs, listing, posts, need, gotten, downloaded,
             invalid, persisted, channel, tasks, files, orphans, applied,
             startLedger, stored, storedBefore, observed, lastWrite, result >>
\* the parts that are followed on their own
aside == << blk, retry, one, led, pk, nest, app >>
vars == << engine, aside >>

\* ------------------------------------------------------- names and keys
Sha256(u) == <<"sha256", u>>
Base64(u) == <<"b64", u>>
\* BASE64_URL_SAFE_NO_PAD.decode(..).ok() then String::from_utf8(..).ok()
Base64Decode(s) == IF s[1] = "b64" THEN {s[2]} ELSE {}

\* file stem of make_filename(url, ..)
MakeFilenamePlain(u) == <<"plain", u>>
MakeFilename(u) == IF revision = "module" THEN Base64(u) ELSE Sha256(u)

\* PersistentSet: the key a url is kept under
Key(u) == IF revision = "flat" THEN Sha256(u) ELSE <<"url", u>>
Contains(set, u) == Key(u) \in set
Insert(set, u) == set \cup {Key(u)}

\* the url whose image a stored file holds
UrlOfFile(s) == s[2]

Monus(a, b) == IF a > b THEN a - b ELSE 0

\* ------------------------------------------------------ the listing stream
\* Posts::new
NewPosts(feed) ==
    [state |-> "NeedMore", fetched |-> <<>>, next_page_id |-> NoToken,
     feed |-> feed, requests |-> 0, asked |-> NoToken, error |-> FALSE]
\* no stream: before the first run and after a run
NoPosts == [NewPosts(<<>>) EXCEPT !.state = "Exhausted"]

\* the closure of filter_map: the url of a child that has over_18 = false
KeepChildAnyAge(c) == c.over_18 # "absent"
KeepChild(c) == c.over_18 = "false"
RECURSIVE FilterMap(_)
FilterMap(children) ==
    IF children = <<>> THEN <<>>
    ELSE (IF KeepChild(Head(children)) THEN <<Head(children).url>> ELSE <<>>)
            \o FilterMap(Tail(children))

\* get_next_page before its async block: the `after` the request is built
\* with, NoToken when the query has no `after`
QueryAfterFirstPage(P) == NoToken
QueryAfter(P) == P.next_page_id

\* get_next_page once with_backoff! has given the JSON: Ok(Page) or Err
GetNextPage(json) ==
    IF json.data
    THEN [ok |-> TRUE, next_page_id |-> json.after,
          posts |-> FilterMap(json.children)]
    ELSE [ok |-> FALSE, next_page_id |-> NoToken, posts |-> <<>>]

\* Vec::pop on a buffer that is not empty: the last element leaves
PopFront(buf) == [item |-> Head(buf), rest |-> Tail(buf)]
Pop(buf) == [item |-> buf[Len(buf)], rest |-> SubSeq(buf, 1, Len(buf) - 1)]

\* poll_next, arm Fetching, the future has given Ok(Page)
OnPageEmptyIsEnd(P, page) ==
    [P EXCEPT !.next_page_id = page.next_page_id,
              !.state = IF page.posts = <<>> THEN "Exhausted" ELSE "Fetched",
              !.fetched = page.posts]
OnPage(P, page) ==
    [P EXCEPT !.next_page_id = page.next_page_id,
              !.state = "Fetched", !.fetched = page.posts]
\* poll_next, arm Fetching, the future has given Err
OnPageErrorRetry(P) == [P EXCEPT !.state = "NeedMore", !.error = TRUE]
OnPageError(P) == [P EXCEPT !.state = "Exhausted", !.error = TRUE]
\* poll_next, arm Fetched, nothing left to pop
OnDrainedAskAgain(P) == [P EXCEPT !.state = "NeedMore", !.fetched = <<>>]
OnDrained(P) ==
    [P EXCEPT !.state = IF P.next_page_id # NoToken THEN "NeedMore"
                                                     ELSE "Exhausted",
              !.fetched = <<>>]

\* ------------------------------------------------------------ the window
\* A task is one fetch_one future.  Its path gives its place: <<i>> is the
\* i-th reference pulled from the listing, p \o <<j>> the j-th member pulled
\* by the fetch_multiple call that the gallery task p runs.
\*   skipped    filtered out: already in the ledger
\*   fetching   the GET (inside with_backoff) is outstanding
\*   writing    the spawn_blocking closure is running
\*   written    the closure returned Ok, the future has not been polled yet
\*   wfailed    the closure returned Err, the future has not been polled yet
\*   expanding  a gallery: its nested fetch_multiple is running
\*   ok         an image, persisted and counted
\*   exhausted  a gallery that returned Ok and sent its url on invalid_tx
\*   mined      a gallery that returned Ok without sending its url
\*   err        fetch_one returned Err and marked the url invalid
\*   dropped    the future was dropped by a break of an enclosing loop
\*   detached   dropped while writing: the closure runs on without it
InFlightStates == {"fetching", "writing", "written", "wfailed", "expanding"}

Parent(p) == SubSeq(p, 1, Len(p) - 1)
IsUnder(f, q) == Len(q) > Len(f) /\ SubSeq(q, 1, Len(f)) = f
Children(t, f) == {p \in DOMAIN t : Len(p) = Len(f) + 1 /\ Parent(p) = f}

\* the items the call of frame f has pulled from its `urls` stream (<<>> is
\* the top-level call)
Pulled(t, f) == Cardinality(Children(t, f))
\* `touched` of the fetch_multiple call of frame f: inspect(|_| touched += 1)
\* sits before the filter and sees every item that is pulled
TouchedUnskipped(t, f) ==
    Cardinality({p \in Children(t, f) : t[p].st # "skipped"})
Touched(t, f) == Pulled(t, f)
\* the futures buffer_unordered holds for frame f
InFlight(t, f) == {p \in Children(t, f) : t[p].st \in InFlightStates}
\* the items the `urls` stream of frame f has to give: for the top-level
\* call what Posts has emitted, for a gallery its members
Input(M, f) == IF f = <<>> THEN M.in ELSE Members(M.t[f].url)

\* buffer_unordered(n): another future is taken in while fewer than n are held
WindowHasRoomOverfull(held) == held <= BufferWidth
WindowHasRoom(held) == held < BufferWidth

\* the filter of fetch_multiple: TRUE when the url is skipped
SkipDownloadedOnly(dl, inv, u) == Contains(dl, u)
Skip(dl, inv, u) == Contains(dl, u) \/ Contains(inv, u)

\* `if gotten >= self.need { break; }`
QuotaReachedStrict(g, n) == g > n
QuotaReached(g, n) == g >= n

\* `if touched >= url_amount` of the gallery parsers
ExhaustedStrict(touched, amount) == touched > amount
Exhausted(touched, amount) == touched >= amount

\* fetch_one's chain of classifiers, by revision: what becomes of a body
Classify(body) ==
    IF revision = "module"
    THEN CASE body = "image"  -> "write"
           [] body = "ratio"  -> "fail"
           [] body = "imgur"  -> "expand"
           [] body = "reddit" -> "expand"
           [] OTHER           -> "fail"
    ELSE CASE body = "image"  -> "write"
           [] body = "imgur"  -> "expand"
           [] OTHER           -> "fail"

\* The part of the state one poll of the run's future rewrites:
\*   t the tasks, ch the channel, inv Fetcher.invalid, orph the orphans,
\*   in what the listing stream has emitted,
\*   top whether the top-level fetch_multiple has returned.
Machine == [t |-> tasks, ch |-> channel, inv |-> invalid, orph |-> orphans,
            in |-> listing, top |-> FALSE]

\* One item pulled through inspect / filter / map(fetch_one): touched += 1,
\* and unless it is filtered the future joins the window and sends its GET.
Dispatch(M, f) ==
    LET i == Pulled(M.t, f) + 1
        u == Input(M, f)[i]
        again == \E q \in DOMAIN M.t : M.t[q].url = u /\ M.t[q].st \in {"ok", "err"}
    IN  [M EXCEPT !.t = M.t @@ ((f \o <<i>>) :>
            [url |-> u,
             st |-> IF Skip(downloaded, M.inv, u) THEN "skipped" ELSE "fetching",
             again |-> again])]

\* BufferUnordered::poll_next over stream::iter: pull until the window is
\* full or the stream is at its end.
RECURSIVE Fill(_, _)
Fill(M, f) ==
    IF WindowHasRoom(Cardinality(InFlight(M.t, f)))
       /\ Pulled(M.t, f) < Len(Input(M, f))
    THEN Fill(Dispatch(M, f), f)
    ELSE M

\* `break` drops the window of frame f: every future under f is dropped;
\* a spawn_blocking closure that is running cannot be cancelled.
DropKillsWrites(M, f) ==
    [M EXCEPT !.t = [p \in DOMAIN M.t |->
        IF IsUnder(f, p) /\ M.t[p].st \in InFlightStates
        THEN [M.t[p] EXCEPT !.st = "dropped"]
        ELSE M.t[p]]]
Drop(M, f) ==
    [M EXCEPT
        !.t = [p \in DOMAIN M.t |->
            IF IsUnder(f, p) /\ M.t[p].st \in InFlightStates
            THEN [M.t[p] EXCEPT !.st = IF M.t[p].st = "writing" THEN "detached"
                                                                ELSE "dropped"]
            ELSE M.t[p]],
        !.orph = M.orph \cup {M.t[p].url : p \in
                    {q \in DOMAIN M.t : IsUnder(f, q) /\ M.t[q].st = "writing"}}]

\* The tail of parse_imgur_gallery / parse_reddit_gallery once the nested
\* fetch_multiple of gallery task f has returned `touched`.
GalleryReturn(M, f) ==
    LET mark == Exhausted(Touched(M.t, f), Len(Members(M.t[f].url)))
    IN  [M EXCEPT !.t[f].st = IF mark THEN "exhausted" ELSE "mined",
                  !.ch = IF mark THEN M.ch \cup {M.t[f].url} ELSE M.ch]

\* Task p has just completed and the loop of its frame looks at the counter
\* (g is gotten as loaded).  On a break the frame's window is dropped and a
\* nested call returns into its gallery task, which completes in the same
\* poll, and so on upwards.  Otherwise a nested loop polls its window again,
\* which refills it, and returns when the window is empty.  The top-level
\* stream may be pending, so the top-level window is refilled by PullTop.
RECURSIVE Settle(_, _, _)
Settle(M, p, g) ==
    LET f == Parent(p) IN
    IF QuotaReached(g, need)
    THEN LET D == Drop(M, f) IN
         IF f = <<>> THEN [D EXCEPT !.top = TRUE]
                     ELSE Settle(GalleryReturn(D, f), f, g)
    ELSE IF f = <<>> THEN M
         ELSE LET R == Fill(M, f) IN
              IF InFlight(R.t, f) = {} THEN Settle(GalleryReturn(R, f), f, g)
                                       ELSE R

\* A gallery page parsed: the nested fetch_multiple starts and is polled.
Expand(M, p, g) ==
    LET E == [M EXCEPT !.t[p].st = "expanding"]
        R == Fill(E, p)
    IN  IF InFlight(R.t, p) = {} THEN Settle(GalleryReturn(R, p), p, g) ELSE R

\* fetch_one's `if let Err(..) = result`: the url is marked invalid, at once
\* in the ledger (module) or on invalid_tx (flat).  The Err it returns is
\* `res` of the loop in fetch_multiple, which only logs it.
FailAborts(M, p) ==
    LET u == M.t[p].url IN
    [M EXCEPT !.t[p].st = "err",
              !.inv = IF revision = "module" THEN Insert(M.inv, u) ELSE M.inv,
              !.ch = IF revision = "flat" THEN M.ch \cup {u} ELSE M.ch,
              !.top = TRUE]
Fail(M, p) ==
    LET u == M.t[p].url IN
    [M EXCEPT !.t[p].st = "err",
              !.inv = IF revision = "module" THEN Insert(M.inv, u) ELSE M.inv,
              !.ch = IF revision = "flat" THEN M.ch \cup {u} ELSE M.ch]

\* The images directory after the closure for url u has returned: the
\* temporary file was renamed to make_filename(u), or it was removed with
\* the error.
PersistedInPlace(fls, u, ok) == fls \cup {MakeFilename(u)}
Persisted(fls, u, ok) == IF ok THEN fls \cup {MakeFilename(u)} ELSE fls

\* `self.invalid_tx.take()` and the loop over invalid_rx.recv(): every url
\* that was sent is received and inserted.
DrainedNothing(inv, ch) == inv
Drained(inv, ch) == inv \cup {Key(u) : u \in ch}

\* self.gotten.fetch_add(1, Ordering::AcqRel): the counter after it
FetchAddLost(g) == IF g = 0 THEN 1 ELSE g
FetchAdd(g) == g + 1

\* What a poll leaves behind.
Commit(M) ==
    /\ tasks' = M.t
    /\ channel' = M.ch
    /\ invalid' = M.inv
    /\ orphans' = M.orph
    /\ phase' = IF M.top THEN "scan" ELSE phase
    /\ persisted' = IF revision = "module"
                    THEN [persisted EXCEPT !.invalid = M.inv]
                    ELSE persisted

\* ------------------------------------------------------------------ actions
\* no call of with_backoff is followed
NoRetry == [caller |-> "none", state |-> "none", attempts |-> 0, left |-> 0,
            error |-> <<>>, then |-> "none"]
\* no closure is followed
NoBlocking == [url |-> "a", step |-> "none", temp |-> "none", final |-> "none",
               future |-> "none", crashed |-> FALSE]

\* no call of fetch_one is followed
NoDims == <<1, 1>>
NoFetchOne == [url |-> "a", body |-> "neterr", dims |-> NoDims,
               step |-> "none", at |-> 0,
               ran |-> <<>>, file |-> FALSE, counted |-> FALSE,
               expanded |-> FALSE, marked |-> FALSE, result |-> "none"]

\* no PersistentSet is followed
NoLedger == [live |-> FALSE, mem |-> {}, file |-> [exists |-> FALSE, text |-> <<>>],
             flushed |-> {}, dir |-> {}, op |-> "none", arg |-> <<>>,
             fault |-> "none", ret |-> "none"]

\* no call of pick() is followed
NoPicker == [dir |-> {}, applied |-> {}, step |-> "none", seen |-> {},
             before |-> {}, given |-> {}, chosen |-> "none", image |-> "none",
             ret |-> "none"]

\* no chain of nested calls is followed
NoNest == [ref |-> "a", img |-> "junk", need |-> 0, gotten |-> 0, invalid |-> {},
           sent |-> {}, stack |-> <<>>, cut |-> FALSE, pc |-> "none"]

\* the main loop is not followed
NoApp == [pc |-> "none", queue |-> <<>>, tray |-> "down", trigger |-> "none",
          first |-> "none", picks |-> 0, fetches |-> 0,
          already_fetched |-> FALSE, set |-> FALSE, ret |-> "none",
          logged |-> "none", last |-> "none"]

NoFetcher ==
    /\ listing' = <<>>
    /\ posts' = NoPosts
    /\ need' = 0
    /\ gotten' = 0
    /\ downloaded' = {}
    /\ invalid' = {}
    /\ channel' = {}
    /\ tasks' = <<>>

EngineInit ==
    /\ revision \in {"module", "flat"}
    /\ phase = "idle"
    /\ runs = 0
    /\ listing = <<>>
    /\ posts = NoPosts
    /\ need = 0
    /\ gotten = 0
    /\ downloaded = {}
    /\ invalid = {}
    /\ persisted = [downloaded |-> {}, invalid |-> {}]
    /\ channel = {}
    /\ tasks = <<>>
    /\ files = {}
    /\ orphans = {}
    /\ applied = {}
    /\ startLedger = {}
    /\ stored = {}
    /\ storedBefore = {}
    /\ observed = FALSE
    /\ lastWrite = {}
    /\ result = "none"

Init ==
    /\ EngineInit
    /\ nest = NoNest
    /\ app = NoApp
    /\ blk = NoBlocking
    /\ retry = NoRetry
    /\ one = NoFetchOne
    /\ led = NoLedger
    /\ pk = NoPicker

\* fetch(): Fetcher::new loads both sets and computes need; fetch_toplevel
\* then starts fetch_multiple, or (module) returns at once when need is 0.
StartRun ==
    /\ phase = "idle"
    /\ runs < MaxRuns
    /\ runs' = runs + 1
    /\ listing' = <<>>
    /\ downloaded' = persisted.downloaded
    /\ invalid' = persisted.invalid
    /\ need' = Monus(MaxCached, Cardinality(files))
    /\ gotten' = 0
    /\ channel' = {}
    /\ tasks' = <<>>
    /\ phase' = IF revision = "module" /\ need' = 0 THEN "idle" ELSE "fetch"
    /\ \E feed \in Feeds :
         posts' = IF phase' = "idle" THEN NoPosts ELSE NewPosts(feed)
    /\ startLedger' = {u \in Urls :
                         Key(u) \in persisted.downloaded \cup persisted.invalid}
    /\ storedBefore' = stored
    /\ observed' = FALSE
    /\ lastWrite' = {}
    /\ result' = IF phase' = "idle" THEN "ok" ELSE "none"
    /\ UNCHANGED aside
    /\ UNCHANGED << revision, persisted, files, orphans, applied, stored >>

\* buffer_unordered polls the listing stream while its window has room.
StreamPolled ==
    /\ phase = "fetch"
    /\ WindowHasRoom(Cardinality(InFlight(tasks, <<>>)))

\* poll_next, arm NeedMore: the request for the next page is made.
PostsNeedMore ==
    /\ StreamPolled
    /\ posts.state = "NeedMore"
    /\ posts' = [posts EXCEPT !.state = "Fetching", !.requests = @ + 1,
                              !.asked = QueryAfter(posts)]
    /\ lastWrite' = {}
    /\ UNCHANGED << result, aside >>
    /\ UNCHANGED << revision, phase, runs, listing, need, gotten, downloaded,
                    invalid, persisted, channel, tasks, files, orphans, applied,
                    startLedger, stored, storedBefore, observed >>

\* poll_next, arm Fetching, the future is ready: with_backoff! has given up
\* or given the JSON, which get_next_page turns into a Page or an error.
PostsFetching ==
    /\ StreamPolled
    /\ posts.state = "Fetching"
    /\ \/ posts' = OnPageError(posts)
       \/ LET page == GetNextPage(posts.feed[posts.asked]) IN
          posts' = IF page.ok THEN OnPage(posts, page) ELSE OnPageError(posts)
    /\ lastWrite' = {}
    /\ UNCHANGED << result, aside >>
    /\ UNCHANGED << revision, phase, runs, listing, need, gotten, downloaded,
                    invalid, persisted, channel, tasks, files, orphans, applied,
                    startLedger, stored, storedBefore, observed >>

\* poll_next, arm Fetched, posts.pop() is Some: the reference is emitted and
\* goes through inspect / filter / map(fetch_one) into the window.
PullTop ==
    /\ StreamPolled
    /\ posts.state = "Fetched"
    /\ posts.fetched # <<>>
    /\ LET post == Pop(posts.fetched).item
       IN  /\ posts' = [posts EXCEPT !.fetched = Pop(posts.fetched).rest]
           /\ listing' = Append(listing, post)
           /\ Commit(Dispatch([Machine EXCEPT !.in = Append(listing, post)],
                              <<>>))
    /\ lastWrite' = {}
    /\ UNCHANGED << result, aside >>
    /\ UNCHANGED << revision, runs, need, gotten, downloaded, files,
                    applied, startLedger, stored, storedBefore, observed >>

\* poll_next, arm Fetched, posts.pop() is None.
PostsDrained ==
    /\ StreamPolled
    /\ posts.state = "Fetched"
    /\ posts.fetched = <<>>
    /\ posts' = OnDrained(posts)
    /\ lastWrite' = {}
    /\ UNCHANGED << result, aside >>
    /\ UNCHANGED << revision, phase, runs, listing, need, gotten, downloaded,
                    invalid, persisted, channel, tasks, files, orphans, applied,
                    startLedger, stored, storedBefore, observed >>

\* poll_next, arm Exhausted: None; the window is empty: futures.next() is None.
FinishTop ==
    /\ phase = "fetch"
    /\ posts.state = "Exhausted"
    /\ InFlight(tasks, <<>>) = {}
    /\ phase' = "scan"
    /\ lastWrite' = {}
    /\ UNCHANGED << result, aside >>
    /\ UNCHANGED << revision, runs, listing, posts, need, gotten, downloaded,
                    invalid, persisted, channel, tasks, files, orphans, applied,
                    startLedger, stored, storedBefore, observed >>

\* The body of task p arrives and passes parse_raw_image / parse_direct_image
\* up to spawn_blocking.
RespondImage(p) ==
    /\ phase = "fetch"
    /\ tasks[p].st = "fetching"
    /\ \E body \in Bodies(tasks[p].url) : Classify(body) = "write"
    /\ tasks' = [tasks EXCEPT ![p].st = "writing"]
    /\ lastWrite' = {}
    /\ UNCHANGED << result, aside >>
    /\ UNCHANGED << posts, revision, phase, runs, listing, need, gotten, downloaded,
                    invalid, persisted, channel, files, orphans, applied,
                    startLedger, stored, storedBefore, observed >>

\* The GET of task p fails for good, or no classifier takes the body.
RespondFail(p) ==
    /\ phase = "fetch"
    /\ tasks[p].st = "fetching"
    /\ \E body \in Bodies(tasks[p].url) : Classify(body) = "fail"
    /\ Commit(Settle(Fail(Machine, p), p, gotten))
    /\ observed' = (observed \/ gotten >= need)
    /\ lastWrite' = {}
    /\ UNCHANGED << result, aside >>
    /\ UNCHANGED << posts, revision, runs, listing, need, gotten, downloaded, files,
                    applied, startLedger, stored, storedBefore >>

\* The body of task p parses as a gallery.
RespondGallery(p) ==
    /\ phase = "fetch"
    /\ tasks[p].st = "fetching"
    /\ \E body \in Bodies(tasks[p].url) : Classify(body) = "expand"
    /\ Commit(Expand(Machine, p, gotten))
    /\ observed' = (observed \/ (tasks'[p].st # "expanding" /\ gotten >= need))
    /\ lastWrite' = {}
    /\ UNCHANGED << result, aside >>
    /\ UNCHANGED << posts, revision, runs, listing, need, gotten, downloaded, files,
                    applied, startLedger, stored, storedBefore >>

\* The blocking closure of task p persists the temporary file.
WriteOk(p) ==
    /\ phase = "fetch"
    /\ tasks[p].st = "writing"
    /\ tasks' = [tasks EXCEPT ![p].st = "written"]
    /\ files' = Persisted(files, tasks[p].url, TRUE)
    /\ stored' = stored \cup {tasks[p].url}
    /\ lastWrite' = {tasks[p].url}
    /\ UNCHANGED << result, aside >>
    /\ UNCHANGED << posts, revision, phase, runs, listing, need, gotten, downloaded,
                    invalid, persisted, channel, orphans, applied, startLedger,
                    storedBefore, observed >>

\* The blocking closure of task p fails (create, write, flush or persist).
WriteErr(p) ==
    /\ phase = "fetch"
    /\ tasks[p].st = "writing"
    /\ tasks' = [tasks EXCEPT ![p].st = "wfailed"]
    /\ files' = Persisted(files, tasks[p].url, FALSE)
    /\ lastWrite' = {tasks[p].url}
    /\ UNCHANGED << result, aside >>
    /\ UNCHANGED << posts, revision, phase, runs, listing, need, gotten, downloaded,
                    invalid, persisted, channel, orphans, applied,
                    startLedger, stored, storedBefore, observed >>

\* Task p is polled after its closure returned Ok: gotten.fetch_add(1),
\* fetch_one returns Ok and the loop of its frame looks at the counter.
PollWritten(p) ==
    /\ phase = "fetch"
    /\ tasks[p].st = "written"
    /\ gotten' = FetchAdd(gotten)
    /\ Commit(Settle([Machine EXCEPT !.t[p].st = "ok"], p, FetchAdd(gotten)))
    /\ observed' = (observed \/ FetchAdd(gotten) >= need)
    /\ lastWrite' = {}
    /\ UNCHANGED << result, aside >>
    /\ UNCHANGED << posts, revision, runs, listing, need, downloaded, files, applied,
                    startLedger, stored, storedBefore >>

\* Task p is polled after its closure returned Err: the error is no
\* InvalidAspectRatio, the gallery parsers reject the image body, fetch_one
\* returns Err.
PollFailed(p) ==
    /\ phase = "fetch"
    /\ tasks[p].st = "wfailed"
    /\ Commit(Settle(Fail(Machine, p), p, gotten))
    /\ observed' = (observed \/ gotten >= need)
    /\ lastWrite' = {}
    /\ UNCHANGED << result, aside >>
    /\ UNCHANGED << posts, revision, runs, listing, need, gotten, downloaded, files,
                    applied, startLedger, stored, storedBefore >>

\* A closure whose future was dropped runs to its end, at any later time.
LateWrite(u) ==
    /\ u \in orphans
    /\ orphans' = orphans \ {u}
    /\ \/ /\ files' = files \cup {MakeFilename(u)}
          /\ stored' = stored \cup {u}
       \/ UNCHANGED << files, stored >>
    /\ lastWrite' = {u}
    /\ UNCHANGED << result, aside >>
    /\ UNCHANGED << posts, revision, phase, runs, listing, need, gotten, downloaded,
                    invalid, persisted, channel, tasks, applied, startLedger,
                    storedBefore, observed >>

\* The rest of fetch_toplevel after fetch_multiple: the images directory is
\* read into `downloaded`; flat also receives the channel into `invalid` and
\* stores both sets.  The Fetcher is consumed.
Reconcile ==
    /\ phase = "scan"
    /\ phase' = "idle"
    /\ persisted' =
         IF revision = "module"
         THEN [persisted EXCEPT !.downloaded =
                 persisted.downloaded \cup
                 {Key(u) : u \in UNION {Base64Decode(s) : s \in files}}]
         ELSE [downloaded |-> downloaded \cup {s : s \in files},
               invalid |-> Drained(invalid, channel)]
    /\ NoFetcher
    /\ lastWrite' = {}
    /\ result' = "ok"
    /\ UNCHANGED aside
    /\ UNCHANGED << revision, runs, files, orphans, applied, startLedger,
                    stored, storedBefore, observed >>

\* pick(): the directory is walked in some order; an image whose hash was
\* applied before is removed and passed over, the first other one is
\* recorded, removed and returned; NoValidImage when none is left.
Pick ==
    /\ phase = "idle"
    /\ files # {}
    /\ \/ \E f \in files :
            /\ PHash(UrlOfFile(f)) \notin applied
            /\ \E S \in SUBSET {x \in files \ {f} : PHash(UrlOfFile(x)) \in applied} :
                 files' = files \ (S \cup {f})
            /\ applied' = applied \cup {PHash(UrlOfFile(f))}
       \/ /\ \A f \in files : PHash(UrlOfFile(f)) \in applied
          /\ files' = {}
          /\ UNCHANGED applied
    /\ lastWrite' = {}
    /\ UNCHANGED << result, aside >>
    /\ UNCHANGED << posts, revision, phase, runs, listing, need, gotten, downloaded,
                    invalid, persisted, channel, tasks, orphans, startLedger,
                    stored, storedBefore, observed >>

Next ==
    \/ StartRun
    \/ PostsNeedMore
    \/ PostsFetching
    \/ PullTop
    \/ PostsDrained
    \/ FinishTop
    \/ \E p \in DOMAIN tasks : RespondImage(p)
    \/ \E p \in DOMAIN tasks : RespondFail(p)
    \/ \E p \in DOMAIN tasks : RespondGallery(p)
    \/ \E p \in DOMAIN tasks : WriteOk(p)
    \/ \E p \in DOMAIN tasks : WriteErr(p)
    \/ \E p \in DOMAIN tasks : PollWritten(p)
    \/ \E p \in DOMAIN tasks : PollFailed(p)
    \/ \E u \in Urls : LateWrite(u)
    \/ Reconcile
    \/ Pick

Spec == Init /\ [][Next]_vars

\* ------------------------------------------------- one blocking write alone
\* The closure given to spawn_blocking by parse_raw_image / parse_direct_image,
\* one statement at a time, with the future that awaits it and the process
\* around it.
\*   blk.step    spawned, created, writing, written, flushed, persisted, failed
\*   blk.temp    the temporary file: none, empty, partial, complete
\*   blk.final   the file under make_filename(url): none, old (an image that
\*               was persisted before), partial, complete
\*   blk.future  awaiting, dropped, ok (counted), err
\*   blk.crashed the process was killed
BlockingInit ==
    /\ EngineInit
    /\ nest = NoNest
    /\ app = NoApp
    /\ \E u \in Images, old \in {"none", "old"} :
         blk = [url |-> u, step |-> "spawned", temp |-> "none", final |-> old,
                future |-> "awaiting", crashed |-> FALSE]
    /\ retry = NoRetry
    /\ one = NoFetchOne
    /\ led = NoLedger
    /\ pk = NoPicker

BlockingRuns == ~blk.crashed /\ blk.step \notin {"none", "persisted", "failed"}

\* file.persist(dst) is reached after write and flush have returned Ok
PersistReadyEarly(step) == step \in {"writing", "flushed"}
PersistReady(step) == step = "flushed"

\* NamedTempFile::new()?
BlockingCreate ==
    /\ BlockingRuns
    /\ blk.step = "spawned"
    /\ \/ blk' = [blk EXCEPT !.step = "created", !.temp = "empty"]
       \/ blk' = [blk EXCEPT !.step = "failed"]
    /\ UNCHANGED << engine, retry, one, led, pk, nest, app >>

\* write_all(&body) / write_to(&mut file, ..): the bytes reach the temporary
\* file in pieces; on Err the NamedTempFile is dropped, which removes it.
BlockingWrite ==
    /\ BlockingRuns
    /\ \/ /\ blk.step = "created"
          /\ blk' = [blk EXCEPT !.step = "writing", !.temp = "partial"]
       \/ /\ blk.step = "writing"
          /\ blk' = [blk EXCEPT !.step = "written", !.temp = "complete"]
       \/ /\ blk.step \in {"created", "writing"}
          /\ blk' = [blk EXCEPT !.step = "failed", !.temp = "none"]
    /\ UNCHANGED << engine, retry, one, led, pk, nest, app >>

\* file.flush()?
BlockingFlush ==
    /\ BlockingRuns
    /\ blk.step = "written"
    /\ \/ blk' = [blk EXCEPT !.step = "flushed"]
       \/ blk' = [blk EXCEPT !.step = "failed", !.temp = "none"]
    /\ UNCHANGED << engine, retry, one, led, pk, nest, app >>

\* file.persist(dst)?: the temporary file is renamed to the final name, or
\* the rename fails and the temporary file is removed with the error.
BlockingPersist ==
    /\ BlockingRuns
    /\ PersistReady(blk.step)
    /\ \/ blk' = [blk EXCEPT !.step = "persisted", !.final = blk.temp,
                              !.temp = "none"]
       \/ blk' = [blk EXCEPT !.step = "failed", !.temp = "none"]
    /\ UNCHANGED << engine, retry, one, led, pk, nest, app >>

\* `.await??` on the JoinHandle: Ok goes on to gotten.fetch_add(1), Err
\* leaves parse_raw_image before it.
BlockingJoin ==
    /\ ~blk.crashed
    /\ blk.future = "awaiting"
    /\ blk.step \in {"persisted", "failed"}
    /\ blk' = [blk EXCEPT !.future = IF blk.step = "persisted" THEN "ok"
                                                               ELSE "err"]
    /\ UNCHANGED << engine, retry, one, led, pk, nest, app >>

\* The future is dropped by a break; the closure is not told.
BlockingFutureDropped ==
    /\ ~blk.crashed
    /\ blk.future = "awaiting"
    /\ blk' = [blk EXCEPT !.future = "dropped"]
    /\ UNCHANGED << engine, retry, one, led, pk, nest, app >>

\* The process is killed: nothing runs any more, the files stay as they are.
BlockingCrash ==
    /\ BlockingRuns
    /\ blk' = [blk EXCEPT !.crashed = TRUE]
    /\ UNCHANGED << engine, retry, one, led, pk, nest, app >>

BlockingNext ==
    \/ BlockingCreate
    \/ BlockingWrite
    \/ BlockingFlush
    \/ BlockingPersist
    \/ BlockingJoin
    \/ BlockingFutureDropped
    \/ BlockingCrash

BlockingSpec == BlockingInit /\ [][BlockingNext]_vars

\* ---------------------------------------------- one with_backoff call alone
\* Backoff::new(10, ..): the number of waits its iterator hands out
BackoffSteps == 10
\* what can fail in one attempt: send() (connect, timeout), bytes() / json()
ErrorKinds == {"connect", "timeout", "body"}

\* with_backoff as called by fetch_one (the GET of a reference) and by
\* get_next_page (the GET of a listing page): FutureRetry over the request
\* with BackoffPolicy over backoff.iter().
\*   retry.state     attempt (a request is out), wait (sleeping), ok, err
\*   retry.attempts  requests made so far
\*   retry.left      the waits the iterator has left
\*   retry.error     the error of the last attempt that failed: its number
\*                   and kind
\*   retry.then      what the caller makes of the result
BackoffInit ==
    /\ EngineInit
    /\ nest = NoNest
    /\ app = NoApp
    /\ blk = NoBlocking
    /\ one = NoFetchOne
    /\ led = NoLedger
    /\ pk = NoPicker
    /\ \E c \in {"fetch_one", "get_next_page"} :
         retry = [caller |-> c, state |-> "attempt", attempts |-> 1,
                  left |-> BackoffSteps, error |-> <<>>, then |-> "none"]

\* BackoffPolicy::handle: self.0.next() is None
GiveUpEarly(left) == left <= 1
GiveUp(left) == left = 0

\* The attempt that is out succeeds: Ok((value, _)) => Ok(value).
BackoffAttemptOk ==
    /\ retry.state = "attempt"
    /\ retry' = [retry EXCEPT !.state = "ok"]
    /\ UNCHANGED << engine, blk, one, led, pk, nest, app >>

\* The attempt that is out fails: handle() asks the iterator for a wait and
\* answers WaitRetry, or ForwardError(err) with the error it was given.
BackoffAttemptErr ==
    /\ retry.state = "attempt"
    /\ \E kind \in ErrorKinds :
         LET err == <<retry.attempts, kind>> IN
         retry' = IF GiveUp(retry.left)
                  THEN [retry EXCEPT !.state = "err", !.error = err]
                  ELSE [retry EXCEPT !.state = "wait", !.error = err,
                                     !.left = @ - 1]
    /\ UNCHANGED << engine, blk, one, led, pk, nest, app >>

\* The wait is over: FutureRetry makes the next attempt.
BackoffRetry ==
    /\ retry.state = "wait"
    /\ retry' = [retry EXCEPT !.state = "attempt", !.attempts = @ + 1]
    /\ UNCHANGED << engine, blk, one, led, pk, nest, app >>

\* The caller takes the result: fetch_one goes on to classify the body or
\* marks the url invalid; poll_next buffers the page or sets Exhausted.
BackoffReturn ==
    /\ retry.state \in {"ok", "err"}
    /\ retry.then = "none"
    /\ retry' = [retry EXCEPT !.then =
                    CASE retry.caller = "fetch_one" /\ retry.state = "ok" -> "classify"
                      [] retry.caller = "fetch_one" /\ retry.state = "err" -> "invalid"
                      [] retry.caller = "get_next_page" /\ retry.state = "ok" -> "Fetched"
                      [] OTHER -> "Exhausted"]
    /\ UNCHANGED << engine, blk, one, led, pk, nest, app >>

BackoffNext ==
    \/ BackoffAttemptOk
    \/ BackoffAttemptErr
    \/ BackoffRetry
    \/ BackoffReturn

BackoffSpec == BackoffInit /\ [][BackoffNext]_vars

\* ------------------------------------------------- one fetch_one call alone
\* The classifiers fetch_one has, in the order of its statements.
Classifiers == IF revision = "module" THEN <<"image", "imgur", "reddit">>
                                      ELSE <<"image", "imgur">>

\* parse_raw_image / parse_direct_image up to spawn_blocking: guess_format,
\* load_from_memory_with_format, screen_size, the comparison of the ratios.
RawImage(body) == CASE body = "image" -> "ok"
                    [] body = "ratio" -> "InvalidAspectRatio"
                    [] OTHER          -> "err"

\* parse_imgur_gallery / parse_reddit_gallery: the page parses or it does not
Gallery(c, body) == IF body = c THEN "ok" ELSE "err"

\* The arms of the `match` after classifier number i returned res: the
\* number of the classifier that is run next, 0 when fetch_one leaves its
\* closure (Ok(()) => return Ok(()), the bail on InvalidAspectRatio, and the
\* last statement "Unable to parse as anything known").
NextClassifierAfterOk(i, res) ==
    IF revision = "module" /\ i = 1 /\ res = "InvalidAspectRatio" THEN 0
    ELSE IF i < Len(Classifiers) THEN i + 1 ELSE 0
NextClassifier(i, res) ==
    IF res = "ok" THEN 0
    ELSE IF revision = "module" /\ i = 1 /\ res = "InvalidAspectRatio" THEN 0
    ELSE IF i < Len(Classifiers) THEN i + 1 ELSE 0

\* platform::screen_size(): width and height of the display
Screen == <<4, 3>>
\* width and height of the images a body can decode to
ImageDims == {<<4, 3>>, <<8, 6>>, <<134, 100>>, <<135, 100>>, <<132, 100>>,
              <<3, 4>>}
\* ASPECT_RATIO_EPSILON, in hundredths
EpsilonHundredths == 1
Abs(n) == IF n < 0 THEN 0 - n ELSE n

\* (iw / ih - sw / sh).abs() <= ASPECT_RATIO_EPSILON, over the integers
AspectOkSigned(iw, ih, sw, sh) ==
    100 * (iw * sh - sw * ih) <= EpsilonHundredths * ih * sh
AspectOk(iw, ih, sw, sh) ==
    100 * Abs(iw * sh - sw * ih) <= EpsilonHundredths * ih * sh

\* What parse_raw_image finds in a body that decodes to an image of
\* dimensions d: an image of the display's ratio or of another one.
Seen(body, d) ==
    IF body \in {"image", "ratio"}
    THEN IF AspectOk(d[1], d[2], Screen[1], Screen[2]) THEN "image" ELSE "ratio"
    ELSE body
DimsOf(body) == IF body \in {"image", "ratio"} THEN ImageDims ELSE {NoDims}

\*   one.dims      width and height of the decoded image
\*   one.step      get, classify, write, return, done
\*   one.at        the number of the classifier that is run next
\*   one.ran       the classifiers run on the body, each with what it returned
\*   one.file      a file has appeared under make_filename(url)
\*   one.counted   gotten.fetch_add(1) was executed
\*   one.expanded  a nested fetch_multiple was run over the gallery's members
\*   one.marked    the url was inserted into invalid / sent on invalid_tx
\*   one.result    what fetch_one returns
FetchOneInit ==
    /\ EngineInit
    /\ nest = NoNest
    /\ app = NoApp
    /\ blk = NoBlocking
    /\ retry = NoRetry
    /\ led = NoLedger
    /\ pk = NoPicker
    /\ \E u \in Urls : \E body \in Bodies(u) : \E d \in DimsOf(body) :
         one = [NoFetchOne EXCEPT !.url = u, !.body = Seen(body, d),
                                  !.dims = d, !.step = "get"]

\* classifier number one.at has returned res
Ran(res) ==
    LET n == NextClassifier(one.at, res) IN
    [one EXCEPT !.ran = Append(@, <<Classifiers[one.at], res>>),
                !.at = n,
                !.step = IF n = 0 THEN "return" ELSE "classify",
                !.result = IF n # 0 THEN "none"
                           ELSE IF res = "ok" THEN "Ok" ELSE "Err"]

\* with_backoff(..).await.wrap_err_with(..)?: the body, or Err out of the
\* closure
FetchOneGet ==
    /\ one.step = "get"
    /\ one' = IF one.body = "neterr"
              THEN [one EXCEPT !.step = "return", !.result = "Err"]
              ELSE [one EXCEPT !.step = "classify", !.at = 1]
    /\ UNCHANGED << engine, blk, retry, led, pk, nest, app >>

\* parse_raw_image / parse_direct_image up to spawn_blocking
FetchOneRawImage ==
    /\ one.step = "classify"
    /\ Classifiers[one.at] = "image"
    /\ one' = IF RawImage(one.body) = "ok" THEN [one EXCEPT !.step = "write"]
                                           ELSE Ran(RawImage(one.body))
    /\ UNCHANGED << engine, blk, retry, led, pk, nest, app >>

\* spawn_blocking(..).await??, then gotten.fetch_add(1): the closure persists
\* the file or fails before the rename
FetchOneWrite ==
    /\ one.step = "write"
    /\ \/ one' = [Ran("ok") EXCEPT !.file = TRUE, !.counted = TRUE]
       \/ one' = Ran("err")
    /\ UNCHANGED << engine, blk, retry, led, pk, nest, app >>

\* parse_imgur_gallery / parse_reddit_gallery
FetchOneGallery ==
    /\ one.step = "classify"
    /\ Classifiers[one.at] \in {"imgur", "reddit"}
    /\ LET res == Gallery(Classifiers[one.at], one.body) IN
       one' = [Ran(res) EXCEPT !.expanded = (@ \/ res = "ok")]
    /\ UNCHANGED << engine, blk, retry, led, pk, nest, app >>

\* `if let Err(ref error) = result`: the url is inserted into invalid / sent
\* on invalid_tx
MarkInvalidUnfetched(res, ran) == res = "Err" /\ ran = <<>>
MarkInvalid(res, ran) == res = "Err"

\* `if let Err(ref error) = result`, then `result`
FetchOneReturn ==
    /\ one.step = "return"
    /\ one' = [one EXCEPT !.step = "done",
                          !.marked = MarkInvalid(one.result, one.ran)]
    /\ UNCHANGED << engine, blk, retry, led, pk, nest, app >>

FetchOneNext ==
    \/ FetchOneGet
    \/ FetchOneRawImage
    \/ FetchOneWrite
    \/ FetchOneGallery
    \/ FetchOneReturn

FetchOneSpec == FetchOneInit /\ [][FetchOneNext]_vars

\* ------------------------------------------------- one PersistentSet alone
\* The PersistentSet of utils.rs (the one the flat fetcher uses) with the
\* file <name>.txt behind it and the images directory the scan reads.
\* Entries and file contents are strings, written as sequences of characters.
LF == "LF"
\* what the set holds: {:x} of a SHA-256, and file stems of the images
\* directory, which make_filename built from such a digest
Entries == {<<"x">>, <<"y">>, <<"x", "y">>}

\* Vec<String>::join("\n")
RECURSIVE Join(_)
Join(lines) ==
    IF lines = <<>> THEN <<>>
    ELSE IF Len(lines) = 1 THEN lines[1]
    ELSE lines[1] \o <<LF>> \o Join(Tail(lines))

\* the orders HashSet::into_iter can give the entries in
Orders(set) ==
    {o \in [1..Cardinality(set) -> set] :
        \A i, j \in 1..Cardinality(set) : o[i] = o[j] => i = j}

\* reader.read_line(&mut line): up to and with the next newline, or the rest
RECURSIVE ReadLine(_)
ReadLine(text) ==
    IF text = <<>> THEN <<>>
    ELSE IF Head(text) = LF THEN <<LF>>
    ELSE <<Head(text)>> \o ReadLine(Tail(text))

\* `if line.ends_with('\n') { line.pop(); }`
StripNothing(line) == line
StripNewline(line) ==
    IF line # <<>> /\ line[Len(line)] = LF THEN SubSeq(line, 1, Len(line) - 1)
                                           ELSE line

\* the loop of load(): lines are read until read_line gives 0 bytes
RECURSIVE ReadAll(_)
ReadAll(text) ==
    IF ReadLine(text) = <<>> THEN {}
    ELSE {StripNewline(ReadLine(text))}
            \cup ReadAll(SubSeq(text, Len(ReadLine(text)) + 1, Len(text)))

\* insert_hash: HashSet::insert, which answers whether the value is new
InsertHashRejectsDuplicate(set, h) ==
    [contents |-> set \cup {h}, ret |-> IF h \in set THEN "Err" ELSE "true"]
InsertHash(set, h) ==
    [contents |-> set \cup {h}, ret |-> IF h \in set THEN "false" ELSE "true"]

\* the loop of fetch_toplevel over the images directory: insert_hash(stem)
\* for every entry
RECURSIVE ScanDir(_, _)
ScanDir(set, dir) ==
    IF dir = {} THEN set
    ELSE LET stem == CHOOSE e \in dir : TRUE
         IN  ScanDir(InsertHash(set, stem).contents, dir \ {stem})

\*   led.live     a PersistentSet is held (Fetcher::new went on to fetch)
\*   led.mem      its contents
\*   led.file     <name>.txt: whether it exists, and its text
\*   led.flushed  the contents the last store() that returned Ok wrote
\*   led.dir      the stems of the files in the images directory
\*   led.op       the last call: load, insert_hash, scan, store; dir when
\*                the directory changed
\*   led.fault    what the filesystem refused in that call
\*   led.ret      what the call returned
LedgerInit ==
    /\ EngineInit
    /\ nest = NoNest
    /\ app = NoApp
    /\ revision = "flat"
    /\ blk = NoBlocking
    /\ retry = NoRetry
    /\ one = NoFetchOne
    /\ led = NoLedger
    /\ pk = NoPicker

\* load(): the file cannot be opened -> Ok with an empty set; read_line fails
\* -> Err; otherwise Ok with the lines of the file.  Fetcher::new returns the
\* Err with `?`, and on Ok the run goes on.
LedgerLoad ==
    /\ ~led.live
    /\ \E fault \in {"none", "open", "read"} :
         /\ ~led.file.exists => fault = "open"
         /\ led' = [led EXCEPT
                !.op = "load", !.arg = <<>>, !.fault = fault,
                !.ret = IF fault = "read" THEN "Err" ELSE "Ok",
                !.live = (fault # "read"),
                !.mem = IF fault = "none" THEN ReadAll(led.file.text) ELSE {}]
    /\ UNCHANGED << engine, blk, retry, one, pk, nest, app >>

LedgerInsertHash ==
    /\ led.live
    /\ \E h \in Entries :
         led' = [led EXCEPT !.op = "insert_hash", !.arg = h, !.fault = "none",
                            !.mem = InsertHash(led.mem, h).contents,
                            !.ret = InsertHash(led.mem, h).ret]
    /\ UNCHANGED << engine, blk, retry, one, pk, nest, app >>

\* the end-of-run scan of the images directory
LedgerScan ==
    /\ led.live
    /\ led' = [led EXCEPT !.op = "scan", !.arg = <<>>, !.fault = "none",
                          !.mem = ScanDir(led.mem, led.dir), !.ret = "Ok"]
    /\ UNCHANGED << engine, blk, retry, one, pk, nest, app >>

\* a file appears in the images directory or leaves it
LedgerDirChange ==
    /\ \E e \in Entries :
         led' = [led EXCEPT !.op = "dir", !.arg = e, !.fault = "none",
                            !.ret = "none",
                            !.dir = IF e \in led.dir THEN led.dir \ {e}
                                                     ELSE led.dir \cup {e}]
    /\ UNCHANGED << engine, blk, retry, one, pk, nest, app >>

\* store(self): open with create and truncate, write_all, sync_all, each
\* with `?`.  The set is consumed.
LedgerStore ==
    /\ led.live
    /\ \E fault \in {"none", "open", "write", "sync"}, o \in Orders(led.mem) :
         led' = [led EXCEPT
                !.op = "store", !.arg = <<>>, !.fault = fault,
                !.ret = IF fault = "none" THEN "Ok" ELSE "Err",
                !.live = FALSE,
                !.mem = {},
                !.flushed = IF fault = "none" THEN led.mem ELSE led.flushed,
                !.file = CASE fault = "open"  -> led.file
                           [] fault = "write" -> [exists |-> TRUE, text |-> <<>>]
                           [] OTHER -> [exists |-> TRUE, text |-> Join(o)]]
    /\ UNCHANGED << engine, blk, retry, one, pk, nest, app >>

LedgerNext ==
    \/ LedgerLoad
    \/ LedgerInsertHash
    \/ LedgerScan
    \/ LedgerDirChange
    \/ LedgerStore

LedgerSpec == LedgerInit /\ [][LedgerNext]_vars

\* ---------------------------------------------------------- the picker alone
\* pick() over the images directory and the table AppliedImages, one entry of
\* read_dir at a time.  A file is named by the reference it was fetched from;
\* "j" is a file that does not decode.
PickerFiles == Images \cup {"j"}
Decodes(f) == f \in Images

\* `SELECT COUNT(*) FROM AppliedImages WHERE image_hash = ?` is not 0
AlreadyAppliedNever(h, table) == FALSE
AlreadyApplied(h, table) == h \in table

\*   pk.dir      the files in the images directory
\*   pk.applied  the hashes in AppliedImages
\*   pk.step     idle, walk (inside find_map), chosen (find_map gave an
\*               image), panicked
\*   pk.seen     the entries find_map has passed in this call
\*   pk.before   AppliedImages as it was when this call started
\*   pk.given    the hashes of the images earlier calls returned
\*   pk.chosen   the file find_map gave
\*   pk.image    the file whose image the last call returned
\*   pk.ret      what the last call returned: Ok, NoValidImage, Err
PickerInit ==
    /\ EngineInit
    /\ nest = NoNest
    /\ app = NoApp
    /\ blk = NoBlocking
    /\ retry = NoRetry
    /\ one = NoFetchOne
    /\ led = NoLedger
    /\ \E d \in SUBSET PickerFiles :
         pk = [NoPicker EXCEPT !.dir = d, !.step = "idle"]

\* a fetch run stores an image, or something else drops a file
PickerDirAdd ==
    /\ pk.step = "idle"
    /\ \E f \in PickerFiles \ pk.dir : pk' = [pk EXCEPT !.dir = @ \cup {f}]
    /\ UNCHANGED << engine, blk, retry, one, led, nest, app >>

\* Connection::open, execute_batch, read_dir, each with `?`
PickerStart ==
    /\ pk.step = "idle"
    /\ \/ pk' = [pk EXCEPT !.step = "walk", !.seen = {}, !.before = pk.applied,
                           !.chosen = "none", !.image = "none", !.ret = "none"]
       \/ pk' = [pk EXCEPT !.image = "none", !.chosen = "none", !.ret = "Err"]
    /\ UNCHANGED << engine, blk, retry, one, led, nest, app >>

\* the closure of find_map on the next entry
PickerEntry ==
    /\ pk.step = "walk"
    /\ \E f \in pk.dir \ pk.seen :
         \/ \* the entry or the file cannot be read: None
            pk' = [pk EXCEPT !.seen = @ \cup {f}]
         \/ \* it does not decode: removed, or the removal fails with a warning
            /\ ~Decodes(f)
            /\ \/ pk' = [pk EXCEPT !.seen = @ \cup {f}, !.dir = @ \ {f}]
               \/ pk' = [pk EXCEPT !.seen = @ \cup {f}]
         \/ \* applied before: removed and passed over; expect_or_log panics
            \* when the removal fails
            /\ Decodes(f)
            /\ AlreadyApplied(PHash(f), pk.applied)
            /\ \/ pk' = [pk EXCEPT !.seen = @ \cup {f}, !.dir = @ \ {f}]
               \/ pk' = [pk EXCEPT !.step = "panicked"]
         \/ \* new: its hash is inserted and find_map ends with it
            /\ Decodes(f)
            /\ ~AlreadyApplied(PHash(f), pk.applied)
            /\ pk' = [pk EXCEPT !.applied = @ \cup {PHash(f)}, !.chosen = f,
                                !.step = "chosen"]
    /\ UNCHANGED << engine, blk, retry, one, led, nest, app >>

\* read_dir is at its end: ok_or(NoValidImage)?
PickerNone ==
    /\ pk.step = "walk"
    /\ pk.dir \ pk.seen = {}
    /\ pk' = [pk EXCEPT !.step = "idle", !.ret = "NoValidImage"]
    /\ UNCHANGED << engine, blk, retry, one, led, nest, app >>

\* fs::remove_file(path)?; Ok(image)
PickerRemove ==
    /\ pk.step = "chosen"
    /\ \/ pk' = [pk EXCEPT !.step = "idle", !.ret = "Ok", !.image = pk.chosen,
                           !.dir = @ \ {pk.chosen},
                           !.given = @ \cup {PHash(pk.chosen)}]
       \/ pk' = [pk EXCEPT !.step = "idle", !.ret = "Err"]
    /\ UNCHANGED << engine, blk, retry, one, led, nest, app >>

PickerNext ==
    \/ PickerDirAdd
    \/ PickerStart
    \/ PickerEntry
    \/ PickerNone
    \/ PickerRemove

PickerSpec == PickerInit /\ [][PickerNext]_vars

\* ------------------------------------------- one chain of nested calls alone
\* fetch_toplevel over a listing of one reference whose gallery pages have
\* one member each: every fetch_multiple call then holds at most one future
\* and the calls in progress form a chain, fetch_one inside fetch_multiple
\* inside fetch_one.  A gallery url always answers with its page.
\*   nest.ref      the reference the listing gives
\*   nest.img      what the image url answers with: image, junk
\*   nest.stack    the urls of the fetch_one calls in progress, the outermost
\*                 first; only the innermost NestKept are kept, which is all
\*                 a call reads before the calls inside it have returned
\*   nest.cut      calls were left out of nest.stack
\*   nest.invalid  the keys inserted into Fetcher.invalid
\*   nest.sent     the urls sent on invalid_tx
\*   nest.pc       start; pull (a fetch_multiple is about to pull its item);
\*                 get (the GET of the innermost fetch_one is out); completed
\*                 (a future gave its result to the loop); drained (a
\*                 fetch_multiple has left its loop); returned (fetch_toplevel
\*                 has returned)
NestKept == 3
NestRefs == {"a", "k", "s", "p"}

NestInit ==
    /\ EngineInit
    /\ blk = NoBlocking
    /\ retry = NoRetry
    /\ one = NoFetchOne
    /\ led = NoLedger
    /\ pk = NoPicker
    /\ app = NoApp
    /\ \E r \in NestRefs, i \in {"image", "junk"}, n \in 0..MaxCached :
         nest = [NoNest EXCEPT !.ref = r, !.img = i, !.need = n, !.pc = "start"]

\* the innermost NestKept calls after fetch_one(u) has started
PushCall(stack, u) ==
    IF Len(stack) < NestKept THEN Append(stack, u) ELSE Append(Tail(stack), u)

\* fetch_toplevel: `if self.need == 0 { return Ok(()) }` (module), then
\* fetch_multiple(urls)
NestStart ==
    /\ nest.pc = "start"
    /\ nest' = [nest EXCEPT !.pc = IF revision = "module" /\ nest.need = 0
                                   THEN "returned" ELSE "pull"]
    /\ UNCHANGED << engine, blk, retry, one, led, pk, app >>

\* fetch_multiple polls its window: the item goes through inspect and the
\* filter; skipped, the stream is at its end with no future and the loop is
\* left; otherwise fetch_one(u) starts and sends its GET.
NestPull ==
    /\ nest.pc = "pull"
    /\ LET u == IF nest.stack = <<>> THEN nest.ref
                ELSE Members(nest.stack[Len(nest.stack)])[1]
       IN  nest' = IF Skip({}, nest.invalid, u)
                   THEN [nest EXCEPT !.pc = "drained"]
                   ELSE [nest EXCEPT !.pc = "get",
                                     !.stack = PushCall(nest.stack, u),
                                     !.cut = (@ \/ Len(nest.stack) = NestKept)]
    /\ UNCHANGED << engine, blk, retry, one, led, pk, app >>

\* The body of the innermost fetch_one arrives.  A gallery page: the parser
\* calls fetch_multiple over its members.  An image: it is written and
\* counted and fetch_one returns Ok.  Anything else: no classifier takes it,
\* the url is marked invalid and fetch_one returns Err.
NestRespond ==
    /\ nest.pc = "get"
    /\ LET u == nest.stack[Len(nest.stack)]
           rest == SubSeq(nest.stack, 1, Len(nest.stack) - 1)
       IN  nest' =
             IF Members(u) # <<>> THEN [nest EXCEPT !.pc = "pull"]
             ELSE IF nest.img = "image"
             THEN [nest EXCEPT !.pc = "completed", !.stack = rest,
                               !.gotten = FetchAdd(@)]
             ELSE [nest EXCEPT !.pc = "completed", !.stack = rest,
                               !.invalid = IF revision = "module"
                                           THEN Insert(@, u) ELSE @,
                               !.sent = IF revision = "flat"
                                        THEN @ \cup {u} ELSE @]
    /\ UNCHANGED << engine, blk, retry, one, led, pk, app >>

\* `while let Some(res) = futures.next().await`: the one future of the call
\* has completed; the loop breaks on the quota, or polls again and finds the
\* stream at its end.
NestLoop ==
    /\ nest.pc = "completed"
    /\ nest' = [nest EXCEPT !.pc = "drained"]
    /\ UNCHANGED << engine, blk, retry, one, led, pk, app >>

\* fetch_multiple returns touched = 1: into fetch_toplevel, which scans the
\* directory and returns, or into the gallery parser of the innermost call,
\* which sends the gallery as exhausted and returns Ok.
NestReturn ==
    /\ nest.pc = "drained"
    /\ nest' =
         IF nest.stack = <<>> THEN [nest EXCEPT !.pc = "returned"]
         ELSE LET u == nest.stack[Len(nest.stack)] IN
              [nest EXCEPT !.pc = "completed",
                           !.stack = SubSeq(nest.stack, 1, Len(nest.stack) - 1),
                           !.sent = IF Exhausted(1, Len(Members(u)))
                                    THEN @ \cup {u} ELSE @]
    /\ UNCHANGED << engine, blk, retry, one, led, pk, app >>

NestNext ==
    \/ NestStart
    \/ NestPull
    \/ NestRespond
    \/ NestLoop
    \/ NestReturn

\* every network call returns and the executor keeps polling the run
NestSpec == NestInit /\ [][NestNext]_vars /\ WF_vars(NestNext)

\* ------------------------------------------------------ the main loop alone
\* main() after its setup: 'mainloop with find_new_background statement by
\* statement, the channel from the tray thread and the tray thread itself.
\* fetch() and pick() are taken by what they return.
\*   app.pc       loop (top of 'mainloop), read, pick1, fetch1, pick2, set,
\*                after (places in find_new_background), ret (it has
\*                returned), wait (recv_timeout), ended (main has returned)
\*   app.queue    the messages sent and not yet received
\*   app.tray     up while a sender of the channel is alive
\*   app.trigger  what started the cycle: start, ChangeNow, Timeout
\*   app.first    what the first pick() of the cycle returned
\*   app.picks    calls of pick() in the cycle
\*   app.fetches  calls of do_fetch() in the cycle
\*   app.set      set_background has returned Ok in the cycle
\*   app.ret      what find_new_background returned
\*   app.logged   the level of the last record of the loop: info, error
\*   app.last     what the last recv_timeout returned
\* sync_channel(10), scaled down
ChannelBound == 2
Messages == {"ChangeNow", "CopyImage", "Quit"}

AppInit ==
    /\ EngineInit
    /\ blk = NoBlocking
    /\ retry = NoRetry
    /\ one = NoFetchOne
    /\ led = NoLedger
    /\ pk = NoPicker
    /\ nest = NoNest
    /\ app = [NoApp EXCEPT !.pc = "loop", !.tray = "up", !.trigger = "start"]

\* find_new_background returns Err(..) out of the statement at hand
ReturnsErr == [app EXCEPT !.pc = "ret", !.ret = "Err"]

\* `if !already_fetched`
NeedsFetchAlways(already_fetched) == TRUE
NeedsFetch(already_fetched) == ~already_fetched

\* the `match` on the result of find_new_background: both arms log and fall
\* through to the inner loop
AfterCycleErrEnds(ret) == IF ret = "Err" THEN "ended" ELSE "wait"
AfterCycle(ret) == "wait"

\* the arms of the `match` on recv_timeout: where the loop goes
OnMessage(m) == CASE m = "Quit"         -> "ended"
                  [] m = "ChangeNow"    -> "loop"
                  [] m = "CopyImage"    -> "wait"
                  [] m = "Disconnected" -> "ended"
                  [] OTHER              -> "loop"

\* top of 'mainloop: find_new_background is called
AppCycle ==
    /\ app.pc = "loop"
    /\ app' = [app EXCEPT !.pc = "read", !.first = "none", !.picks = 0,
                          !.fetches = 0, !.already_fetched = FALSE,
                          !.set = FALSE, !.ret = "none"]
    /\ UNCHANGED << engine, blk, retry, one, led, pk, nest >>

\* fs::read_to_string(subreddits.txt)?
AppReadSubreddits ==
    /\ app.pc = "read"
    /\ \/ app' = [app EXCEPT !.pc = "pick1"]
       \/ app' = ReturnsErr
    /\ UNCHANGED << engine, blk, retry, one, led, pk, nest >>

\* the first picker::pick: Ok(img), NoValidImage, or another error (bail!)
AppFirstPick ==
    /\ app.pc = "pick1"
    /\ \/ app' = [app EXCEPT !.pc = "set", !.first = "Ok", !.picks = 1]
       \/ app' = [app EXCEPT !.pc = "fetch1", !.first = "NoValidImage",
                             !.picks = 1]
       \/ app' = [ReturnsErr EXCEPT !.first = "Err", !.picks = 1]
    /\ UNCHANGED << engine, blk, retry, one, led, pk, nest >>

\* do_fetch()?; already_fetched = true;
AppFetchFirst ==
    /\ app.pc = "fetch1"
    /\ \/ app' = [app EXCEPT !.pc = "pick2", !.fetches = @ + 1,
                             !.already_fetched = TRUE]
       \/ app' = [ReturnsErr EXCEPT !.fetches = @ + 1]
    /\ UNCHANGED << engine, blk, retry, one, led, pk, nest >>

\* picker::pick(logger)?
AppSecondPick ==
    /\ app.pc = "pick2"
    /\ \/ app' = [app EXCEPT !.pc = "set", !.picks = 2]
       \/ app' = [ReturnsErr EXCEPT !.picks = 2]
    /\ UNCHANGED << engine, blk, retry, one, led, pk, nest >>

\* screen_size()?, resize, save(&path)?, set_background(&path)?
AppSetBackground ==
    /\ app.pc = "set"
    /\ \/ app' = [app EXCEPT !.pc = "after", !.set = TRUE]
       \/ app' = ReturnsErr
    /\ UNCHANGED << engine, blk, retry, one, led, pk, nest >>

\* `if !already_fetched { do_fetch()?; }  Ok(())`
AppFetchAfter ==
    /\ app.pc = "after"
    /\ IF NeedsFetch(app.already_fetched)
       THEN \/ app' = [app EXCEPT !.pc = "ret", !.ret = "Ok", !.fetches = @ + 1]
            \/ app' = [ReturnsErr EXCEPT !.fetches = @ + 1]
       ELSE app' = [app EXCEPT !.pc = "ret", !.ret = "Ok"]
    /\ UNCHANGED << engine, blk, retry, one, led, pk, nest >>

\* the `match` of 'mainloop on what find_new_background returned
AppLogged ==
    /\ app.pc = "ret"
    /\ app' = [app EXCEPT !.pc = AfterCycle(app.ret),
                          !.logged = IF app.ret = "Ok" THEN "info" ELSE "error"]
    /\ UNCHANGED << engine, blk, retry, one, led, pk, nest >>

\* messages.recv_timeout(one hour): the oldest message; Timeout when none
\* came; Disconnected when none is left and every sender is gone.  CopyImage
\* copies the background or logs the error and stays in the inner loop.
AppRecv ==
    /\ app.pc = "wait"
    /\ LET m == IF app.queue # <<>> THEN Head(app.queue)
                ELSE IF app.tray = "up" THEN "Timeout" ELSE "Disconnected"
       IN  \E copied \in {"info", "error"} :
             app' = [app EXCEPT
                      !.queue = IF app.queue # <<>> THEN Tail(@) ELSE @,
                      !.last = m,
                      !.pc = OnMessage(m),
                      !.trigger = IF OnMessage(m) = "loop" THEN m ELSE @,
                      !.logged = CASE m = "Disconnected" -> "error"
                                   [] m = "CopyImage"    -> copied
                                   [] m = "Timeout"      -> @
                                   [] OTHER              -> "info"]
    /\ UNCHANGED << engine, blk, retry, one, led, pk, nest >>

\* a menu item of the tray is chosen: its callback sends the message; Quit
\* also ends the tray thread, which drops the senders
AppTraySend ==
    /\ app.pc \notin {"none", "ended"}
    /\ app.tray = "up"
    /\ Len(app.queue) < ChannelBound
    /\ \E m \in Messages :
         app' = [app EXCEPT !.queue = Append(@, m),
                            !.tray = IF m = "Quit" THEN "down" ELSE "up"]
    /\ UNCHANGED << engine, blk, retry, one, led, pk, nest >>

\* wait_for_message returns with an error: the tray thread ends
AppTrayGone ==
    /\ app.pc \notin {"none", "ended"}
    /\ app.tray = "up"
    /\ app' = [app EXCEPT !.tray = "down"]
    /\ UNCHANGED << engine, blk, retry, one, led, pk, nest >>

AppNext ==
    \/ AppCycle
    \/ AppReadSubreddits
    \/ AppFirstPick
    \/ AppFetchFirst
    \/ AppSecondPick
    \/ AppSetBackground
    \/ AppFetchAfter
    \/ AppLogged
    \/ AppRecv
    \/ AppTraySend
    \/ AppTrayGone

AppSpec == AppInit /\ [][AppNext]_vars

\* ------------------------------------------------------------------- claims
Terminal == {"skipped", "ok", "err", "exhausted", "mined"}
Leaves == {p \in DOMAIN tasks : tasks[p].st \in InFlightStates \ {"expanding"}}
PendingWrites ==
    {tasks[p].url : p \in {q \in DOMAIN tasks : tasks[q].st = "writing"}}
        \cup orphans

\* C1: a reference that the ledger held (downloaded or invalid) when the run
\* was constructed is never fetched by that run, be it offered by the
\* listing or found as a member of a gallery: it is only ever skipped.
C1_LedgerNeverFetched ==
    \A p \in DOMAIN tasks :
        tasks[p].url \in startLedger => tasks[p].st = "skipped"

\* C1 witness: a second run skips a ledger entry offered by the listing and
\* another one met as a gallery member.
C1_Witness ==
    /\ runs = 2
    /\ \E p \in DOMAIN tasks :
         Len(p) = 1 /\ tasks[p].url \in startLedger /\ tasks[p].st = "skipped"
    /\ \E p \in DOMAIN tasks :
         Len(p) = 2 /\ tasks[p].url \in startLedger /\ tasks[p].st = "skipped"

\* C2: once the image of a reference has appeared under its final store
\* name, no later run fetches that reference again.
C2_StoredOnce ==
    \A p \in DOMAIN tasks :
        tasks[p].url \in storedBefore => tasks[p].st = "skipped"

\* C3: the accepted counter never exceeds need, for every need >= 0.
C3_QuotaRespected == gotten <= need

\* C4: within a run, a reference that has reached a terminal outcome (image
\* stored and counted, or marked invalid) is skipped at every later
\* occurrence.
C4_NoRefetchInRun ==
    \A p \in DOMAIN tasks : tasks[p].again => tasks[p].st = "skipped"

\* C5: no key is in both the downloaded and the invalid ledger, in the
\* Fetcher's sets and in the ledger storage.
C5_OneStatus ==
    /\ downloaded \cap invalid = {}
    /\ persisted.downloaded \cap persisted.invalid = {}

\* C6: a gallery that is marked invalid has had every one of its members
\* resolved to a terminal outcome (so a gallery with an unresolved member at
\* the time the quota is reached is not marked).
C6_UnfinishedGalleryUnmarked ==
    \A f \in DOMAIN tasks :
        tasks[f].st = "exhausted" =>
            \A i \in 1..Len(Members(tasks[f].url)) :
                /\ (f \o <<i>>) \in DOMAIN tasks
                /\ tasks[f \o <<i>>].st \in Terminal

\* C7: a gallery whose nested fetch_multiple has returned is marked invalid
\* exactly when touched >= its number of members, and its own resolution is
\* a success: with touched below the number of members nothing marks its
\* url.  (Stated for a gallery url that no other task of the run marks.)
C7_MarkedIffTouchedAll ==
    \A f \in DOMAIN tasks :
        tasks[f].st \in {"exhausted", "mined"} =>
            LET u == tasks[f].url
                others == {q \in DOMAIN tasks \ {f} :
                             tasks[q].url = u /\ tasks[q].st \in {"err", "exhausted"}}
            IN  others = {} =>
                  ((u \in channel \/ Contains(invalid, u))
                      <=> Touched(tasks, f) >= Len(Members(u)))

\* C7 witness: every member examined, none accepted, the gallery marked.
C7_Witness ==
    \E f \in DOMAIN tasks :
        /\ tasks[f].st = "exhausted"
        /\ tasks[f].url \in channel
        /\ gotten = 0
        /\ \A i \in 1..Len(Members(tasks[f].url)) :
             /\ (f \o <<i>>) \in DOMAIN tasks
             /\ tasks[f \o <<i>>].st = "err"

C9_DispatchedComplete ==
    phase = "scan" => \A p \in DOMAIN tasks : tasks[p].st \in Terminal

\* C9 (amended): a blocking write that has started is never cancelled: it
\* stays pending until the step in which it runs to its end, also when the
\* quota is reached and its future is dropped; and when fetch_multiple has
\* returned no future is left in flight.
C9_WritesRunToEnd ==
    [][ /\ \A u \in PendingWrites : u \in PendingWrites' \/ u \in lastWrite'
        /\ phase' = "scan" =>
             \A p \in DOMAIN tasks' : tasks'[p].st \notin InFlightStates ]_vars

\* C9 witness: the quota was reached, a write was detached from its dropped
\* future and has then run to its end, leaving the file in the store.
C9_Witness ==
    /\ phase = "scan"
    /\ gotten >= need
    /\ \E p \in DOMAIN tasks :
         /\ tasks[p].st = "detached"
         /\ lastWrite = {tasks[p].url}
         /\ tasks[p].url \notin orphans
         /\ MakeFilename(tasks[p].url) \in files

\* C10: once a completion check has observed gotten >= need, no reference
\* is pulled and no fetch is started for the rest of the run.
C10_NoPullAfterQuota ==
    [][ observed => DOMAIN tasks' \subseteq DOMAIN tasks ]_vars

\* C10 witness: the quota was observed inside a gallery that still had a
\* member that was never pulled, and the run went on to its scan.
C10_Witness ==
    /\ observed
    /\ need > 0
    /\ phase = "scan"
    /\ \E f \in DOMAIN tasks :
         /\ tasks[f].st = "mined"
         /\ Touched(tasks, f) < Len(Members(tasks[f].url))

\* C11: the file under the final store name is never a partial image, also
\* when the process is killed or the future is dropped at any statement of
\* the write; the final name only ever changes by the rename of a temporary
\* file that was written completely and flushed.
C11_FinalNameComplete ==
    [][ /\ blk'.final # "partial"
        /\ blk'.final # blk.final =>
              /\ blk.step = "flushed"
              /\ blk.temp = "complete"
              /\ blk'.final = "complete" ]_vars

\* C11 witness: the process was killed in the middle of the write after the
\* future had been dropped: the temporary file is partial, the final name
\* has not appeared.
C11_Witness ==
    /\ blk.crashed
    /\ blk.future = "dropped"
    /\ blk.temp = "partial"
    /\ blk.final = "none"

\* what is said of the listing stream is said of the stream of one run
SameStream == phase = "fetch"
Range(seq) == {seq[i] : i \in DOMAIN seq}
Reverse(seq) == [i \in 1..Len(seq) |-> seq[Len(seq) + 1 - i]]

\* C12: the listing stream only takes the transitions NeedMore -> Fetching
\* (the one step that makes a page request), Fetching -> Fetched (a page
\* came), Fetching -> Exhausted (the request or the page failed), Fetched ->
\* Fetched (a buffered reference is emitted), Fetched -> NeedMore (buffer
\* empty, token held), Fetched -> Exhausted (buffer empty, no token); in
\* Exhausted nothing changes and no page request is made.
C12_PostsTransitions ==
    [][ (SameStream /\ posts' # posts) =>
          /\ posts.state # "Exhausted"
          /\ \/ /\ posts.state = "NeedMore" /\ posts'.state = "Fetching"
                /\ posts'.requests = posts.requests + 1
                /\ listing' = listing
             \/ /\ posts.state = "Fetching" /\ posts'.state = "Fetched"
                /\ ~posts'.error
                /\ posts'.requests = posts.requests
                /\ listing' = listing
             \/ /\ posts.state = "Fetching" /\ posts'.state = "Exhausted"
                /\ posts'.error
                /\ posts'.requests = posts.requests
                /\ listing' = listing
             \/ /\ posts.state = "Fetched" /\ posts'.state = "Fetched"
                /\ posts.fetched # <<>>
                /\ listing' = Append(listing, posts.fetched[Len(posts.fetched)])
                /\ posts'.fetched = SubSeq(posts.fetched, 1, Len(posts.fetched) - 1)
                /\ posts'.requests = posts.requests
             \/ /\ posts.state = "Fetched" /\ posts'.state = "NeedMore"
                /\ posts.fetched = <<>> /\ posts.next_page_id # NoToken
                /\ posts'.requests = posts.requests
                /\ listing' = listing
             \/ /\ posts.state = "Fetched" /\ posts'.state = "Exhausted"
                /\ posts.fetched = <<>> /\ posts.next_page_id = NoToken
                /\ posts'.requests = posts.requests
                /\ listing' = listing ]_vars

\* C12 witness: a stream that went twice through NeedMore, Fetching and
\* Fetched, emitted references and ended in Exhausted for want of a token.
C12_Witness ==
    /\ SameStream
    /\ posts.state = "Exhausted"
    /\ ~posts.error
    /\ posts.requests = 2
    /\ Len(listing) >= 2

\* the references a feed offers when every page request succeeds: page by
\* page, the urls of the children with over_18 = false, last child first
RECURSIVE Offered(_, _)
Offered(feed, token) ==
    LET json == feed[token]
        safe == SelectSeq(json.children, LAMBDA c : c.over_18 = "false")
        urls == [i \in 1..Len(safe) |-> safe[i].url]
    IN  Reverse(urls) \o (IF json.after # NoToken /\ json.after \in DOMAIN feed
                          THEN Offered(feed, json.after) ELSE <<>>)
RECURSIVE PagesOf(_, _)
PagesOf(feed, token) ==
    1 + (IF feed[token].after # NoToken /\ feed[token].after \in DOMAIN feed
         THEN PagesOf(feed, feed[token].after) ELSE 0)

\* C13: after a page without a next-page token the stream makes no further
\* page request and goes nowhere but to Exhausted, and once it is there it
\* has emitted exactly the references of the pages, no more and no fewer,
\* at the cost of one request per page.
C13_LastPageEndsStream ==
    [][ /\ (SameStream /\ posts.state = "Fetched"
                       /\ posts.next_page_id = NoToken) =>
              /\ posts'.requests = posts.requests
              /\ posts'.state \in {"Fetched", "Exhausted"}
        /\ (phase' # "idle" /\ posts'.state = "Exhausted" /\ ~posts'.error) =>
              /\ listing' = Offered(posts'.feed, NoToken)
              /\ posts'.requests = PagesOf(posts'.feed, NoToken) ]_vars

\* C13 witness: the first page holds one reference and no token: one
\* reference emitted, one page request made, end of stream.
C13_Witness ==
    /\ SameStream
    /\ posts.state = "Exhausted"
    /\ ~posts.error
    /\ Len(posts.feed[NoToken].children) = 1
    /\ listing = <<posts.feed[NoToken].children[1].url>>
    /\ posts.requests = 1

C15_NoOver18 ==
    SameStream =>
        \A u \in Range(listing) \cup Range(posts.fetched) :
            \E token \in DOMAIN posts.feed :
                \E i \in DOMAIN posts.feed[token].children :
                    /\ posts.feed[token].children[i].url = u
                    /\ posts.feed[token].children[i].over_18 = "false"

\* C15 witness: a page with an over_18 child has been parsed and all its
\* other references have been emitted.
C15_Witness ==
    /\ SameStream
    /\ \E i \in DOMAIN posts.feed[NoToken].children :
         posts.feed[NoToken].children[i].over_18 = "true"
    /\ posts.requests >= 1
    /\ posts.state = "Fetched"
    /\ posts.fetched = <<>>
    /\ Len(listing) = 2

\* C16: a call whose every attempt fails makes BackoffSteps + 1 attempts,
\* that is BackoffSteps retries, and no more; it returns the error of its
\* last attempt as it was; fetch_one then marks the reference invalid and
\* the listing stream ends, both without a crash.
C16_GivesUpAfterAllSteps ==
    [][ /\ retry'.attempts <= BackoffSteps + 1
        /\ retry'.state = "err" =>
              /\ retry'.attempts = BackoffSteps + 1
              /\ retry'.left = 0
              /\ retry'.error[1] = retry'.attempts
              /\ retry.state = "attempt" => retry'.error[2] \in ErrorKinds
              /\ retry.state = "err" =>
                    /\ retry'.error = retry.error
                    /\ retry'.then = IF retry.caller = "fetch_one"
                                     THEN "invalid" ELSE "Exhausted" ]_vars

\* C16 witness: the eleventh attempt of a reference's GET has failed and
\* the reference has been marked invalid.
C16_Witness ==
    /\ retry.caller = "fetch_one"
    /\ retry.state = "err"
    /\ retry.attempts = 11
    /\ retry.then = "invalid"

\* C17: an image whose aspect ratio is off by more than the epsilon is
\* rejected at once: no gallery classifier is run on its body, no file is
\* written, gotten is not incremented, and the url is marked invalid.
C17_RatioHardReject ==
    one.body = "ratio" =>
        /\ \A i \in 1..Len(one.ran) : one.ran[i][1] = "image"
        /\ ~one.file
        /\ ~one.counted
        /\ ~one.expanded
        /\ one.step = "done" => one.marked /\ one.result = "Err"

\* C18: the classifiers are run in the order direct image, imgur gallery,
\* reddit gallery; every classifier that ran before the last one failed, and
\* while a classifier is still to run none has succeeded.
C18_ClassifierOrder ==
    /\ Len(one.ran) <= 3
    /\ \A i \in 1..Len(one.ran) :
          /\ one.ran[i][1] = <<"image", "imgur", "reddit">>[i]
          /\ i < Len(one.ran) => one.ran[i][2] # "ok"
    /\ one.step \in {"classify", "write"} =>
          \A i \in 1..Len(one.ran) : one.ran[i][2] # "ok"
    /\ one.step = "done" =>
          (one.result = "Ok") = (\E i \in 1..Len(one.ran) : one.ran[i][2] = "ok")

\* a reddit gallery page was taken by the third classifier after the first
\* two had failed on it
C18_Witness ==
    /\ one.step = "done"
    /\ one.ran = << <<"image", "err">>, <<"imgur", "err">>, <<"reddit", "ok">> >>
    /\ one.result = "Ok"

\* the keys marked invalid so far in this run, in the ledger or on the channel
Marked == invalid \cup {Key(u) : u \in channel}
\* the futures that are no gallery with a nested call under way
Unfinished(q) == tasks[q].st \in InFlightStates \ {"expanding"}

\* C19: when fetch_one fails for a reference (the GET failed for good, or no
\* classifier took the body), that reference is marked invalid and no other
\* one is, except a gallery above it that returns exhausted in the same
\* poll; no other future is dropped, the loop goes on while the quota is not
\* reached, and the result of the run does not become an error.
C19_FailureIsLocal ==
    [][ \A p \in DOMAIN tasks :
          (/\ p \in DOMAIN tasks'
           /\ tasks[p].st \in {"fetching", "wfailed"}
           /\ tasks'[p].st = "err") =>
              /\ Key(tasks[p].url) \in Marked'
              /\ Marked' \ Marked \subseteq
                    {Key(tasks[p].url)} \cup
                    {Key(tasks[f].url) : f \in {g \in DOMAIN tasks :
                        IsUnder(g, p) /\ tasks'[g].st = "exhausted"}}
              /\ result' # "err"
              /\ gotten < need =>
                    /\ phase' = "fetch"
                    /\ \A q \in DOMAIN tasks \ {p} :
                          Unfinished(q) => tasks'[q] = tasks[q] ]_vars

\* the first two references of the listing failed, and the third, which was
\* pulled after a failure had made room in the window, was accepted
C19_Witness ==
    /\ need > 0
    /\ {<<1>>, <<2>>, <<3>>} \subseteq DOMAIN tasks
    /\ tasks[<<1>>].st = "err"
    /\ tasks[<<2>>].st = "err"
    /\ tasks[<<3>>].st = "ok"

\* C20: when the blocking closure of a task fails (creating, writing,
\* flushing or renaming), no file appears under a final name and gotten is
\* not incremented, neither when the closure returns nor when the future
\* takes its error; no other future is touched and the loop goes on.
C20_WriteFailureIsLocal ==
    [][ \A p \in DOMAIN tasks : p \in DOMAIN tasks' =>
          /\ (tasks[p].st = "writing" /\ tasks'[p].st = "wfailed") =>
                /\ files' = files
                /\ stored' = stored
                /\ gotten' = gotten
                /\ phase' = phase
                /\ \A q \in DOMAIN tasks \ {p} : tasks'[q] = tasks[q]
          /\ (tasks[p].st = "wfailed" /\ tasks'[p].st = "err") =>
                /\ files' = files
                /\ stored' = stored
                /\ gotten' = gotten
                /\ gotten < need =>
                      /\ phase' = "fetch"
                      /\ \A q \in DOMAIN tasks \ {p} :
                            Unfinished(q) => tasks'[q] = tasks[q] ]_vars

\* the closure of one reference has failed, nothing of it is stored, and a
\* reference of the same call has been accepted and counted
C20_Witness ==
    \E p \in DOMAIN tasks, q \in DOMAIN tasks :
        /\ Parent(p) = Parent(q)
        /\ tasks[p].st = "wfailed"
        /\ tasks[p].url \notin stored
        /\ tasks[q].st = "ok"
        /\ tasks[q].url # tasks[p].url
        /\ gotten = 1

\* C21: when the ledger file is there and cannot be opened or read at the
\* start of a run, load() returns the error, so that Fetcher::new fails and
\* nothing is fetched.
C21_LedgerFailureAborts ==
    [][ (led'.op = "load" /\ led'.fault # "none" /\ led.file.exists) =>
            led'.ret = "Err" /\ ~led'.live ]_vars

\* C22: inserting an entry that is present leaves the set as it is and is
\* no error, and a scan of the images directory right after a scan, the
\* directory being the same, leaves the set as the first scan left it.
C22_ScanIdempotent ==
    [][ /\ (led'.op = "insert_hash" /\ led'.arg \in led.mem) =>
              led'.mem = led.mem /\ led'.ret # "Err" /\ led'.live
        /\ (led.op = "scan" /\ led'.op = "scan") =>
              led'.mem = led.mem /\ led'.ret = "Ok" ]_vars

\* a second scan in a row has run over a directory of two files
C22_Witness ==
    /\ led.op = "scan"
    /\ Cardinality(led.dir) = 2
    /\ led.dir \subseteq led.mem
    /\ led.mem # led.dir

\* C23: a load() that opens and reads the file, right after a store() that
\* returned Ok, gives exactly the entries that store() wrote.
C23_StoreLoadRoundTrip ==
    [][ (/\ led.op = "store" /\ led.ret = "Ok"
         /\ led'.op = "load" /\ led'.fault = "none") =>
            /\ led'.ret = "Ok"
            /\ led'.mem = led.flushed
            /\ led'.file = led.file ]_vars

\* three entries were stored and loaded again
C23_Witness ==
    /\ led.op = "load"
    /\ led.fault = "none"
    /\ led.flushed = Entries
    /\ led.mem = Entries

\* C24: whenever fetch_one has put a file under a final name or counted an
\* image, the image it decoded has a width:height ratio within 0.01 of the
\* display's.
C24_StoredWithinEpsilon ==
    (one.file \/ one.counted) =>
        /\ one.body = "image"
        /\ LET iw == one.dims[1]
               ih == one.dims[2]
               diff == IF iw * 3 >= 4 * ih THEN iw * 3 - 4 * ih
                                           ELSE 4 * ih - iw * 3
           IN  100 * diff <= 3 * ih

\* an image of 134:100 for a display of 4:3 was stored and counted
C24_Witness ==
    /\ one.dims = <<134, 100>>
    /\ one.file
    /\ one.counted
    /\ one.step = "done"

\* C25: a member of a gallery is never itself expanded as a gallery: every
\* future is at most two levels below the listing, and only a reference
\* taken from the listing runs a nested fetch_multiple.
C25_DepthAtMostTwo ==
    \A p \in DOMAIN tasks :
        /\ Len(p) <= 2
        /\ tasks[p].st \in {"expanding", "exhausted", "mined"} => Len(p) = 1

\* C26: when pick() returns an image, its hash was not in AppliedImages when
\* the call started and is none that an earlier call returned, and by the
\* return the hash is recorded and the file is gone from the directory.
C26_PickNeverRepeats ==
    [][ (pk.step = "chosen" /\ pk'.ret = "Ok") =>
            /\ pk'.image \in pk.dir
            /\ PHash(pk'.image) \notin pk.before
            /\ PHash(pk'.image) \notin pk.given
            /\ PHash(pk'.image) \in pk'.applied
            /\ pk'.image \notin pk'.dir ]_vars

\* a second call has returned an image while a file with the hash the first
\* call returned was passed over and removed
C26_Witness ==
    /\ pk.ret = "Ok"
    /\ pk.step = "idle"
    /\ pk.image = "c"
    /\ pk.given = {"h1", "h2"}
    /\ pk.before = {"h1"}
    /\ "b" \in pk.seen
    /\ "b" \notin pk.dir

\* C27: `touched` counts the references that were skipped as well: a
\* gallery of three members of which two were skipped as downloaded and one
\* was stored has touched = 3 and is marked invalid, and when it is the only
\* reference of the listing the run has counted exactly one image.
C27_TouchedCountsSkipped ==
    \A f \in DOMAIN tasks :
        LET kids == Children(tasks, f)
            old == {p \in kids : /\ tasks[p].st = "skipped"
                                 /\ Contains(downloaded, tasks[p].url)}
            new == {p \in kids : tasks[p].st = "ok"}
        IN  (/\ tasks[f].st \in {"exhausted", "mined"}
             /\ Len(Members(tasks[f].url)) = 3
             /\ Cardinality(old) = 2
             /\ Cardinality(new) = 1) =>
                /\ Touched(tasks, f) = 3
                /\ tasks[f].st = "exhausted"
                /\ tasks[f].url \in channel
                /\ Children(tasks, <<>>) = {f} => gotten = 1

\* the listing was the gallery g alone, a and b were in the ledger as
\* downloaded, c was stored, and fetch_multiple has returned
C27_Witness ==
    /\ phase = "scan"
    /\ DOMAIN tasks = {<<1>>, <<1, 1>>, <<1, 2>>, <<1, 3>>}
    /\ tasks[<<1>>].url = "g"
    /\ tasks[<<1>>].st = "exhausted"
    /\ tasks[<<1, 1>>].st = "skipped" /\ Contains(downloaded, "a")
    /\ tasks[<<1, 2>>].st = "skipped" /\ Contains(downloaded, "b")
    /\ tasks[<<1, 3>>].st = "ok"
    /\ gotten = 1
    /\ need = 2

\* C28: when a run ends, the invalid ledger it leaves in storage holds every
\* reference whose fetch_one returned Err in that run, whatever the order of
\* the completions was, and in the flat revision every gallery that was
\* sent as exhausted.
C28_NoMarkLost ==
    [][ (phase = "scan" /\ phase' = "idle") =>
            \A p \in DOMAIN tasks :
                /\ tasks[p].st = "err" =>
                      Key(tasks[p].url) \in persisted'.invalid
                /\ (revision = "flat" /\ tasks[p].st = "exhausted") =>
                      Key(tasks[p].url) \in persisted'.invalid ]_vars

\* the first run of the flat revision has stored an invalid ledger with a
\* reference that failed and a gallery that was exhausted
C28_Witness ==
    /\ revision = "flat"
    /\ runs = 1
    /\ phase = "idle"
    /\ {Key("a"), Key("g")} \subseteq persisted.invalid

\* C29: gotten is at every point the number of futures that have executed
\* the increment, whatever the order of the completions, and it changes only
\* by one, for a future whose closure has renamed the file to its final
\* name.
C29_CounterExact ==
    [][ /\ gotten' = Cardinality({p \in DOMAIN tasks' : tasks'[p].st = "ok"})
        /\ (gotten' # gotten /\ phase' = "fetch") =>
              /\ gotten' = gotten + 1
              /\ \E p \in DOMAIN tasks :
                    /\ tasks[p].st = "written"
                    /\ tasks'[p].st = "ok"
                    /\ MakeFilename(tasks[p].url) \in files
                    /\ \A q \in DOMAIN tasks \ {p} :
                          tasks'[q].st = "ok" <=> tasks[q].st = "ok" ]_vars

\* two futures of one window have both counted their image
C29_Witness ==
    /\ gotten = 2
    /\ phase = "scan"
    /\ \E p \in DOMAIN tasks, q \in DOMAIN tasks :
          /\ p # q
          /\ Parent(p) = Parent(q)
          /\ tasks[p].st = "ok"
          /\ tasks[q].st = "ok"

\* the references of the first k pages of a feed, page after page, each
\* page's urls of the children with over_18 = false from the last to the
\* first
RECURSIVE OfferedUpTo(_, _, _)
OfferedUpTo(feed, token, k) ==
    IF k = 0 THEN <<>>
    ELSE LET json == feed[token]
             safe == SelectSeq(json.children, LAMBDA c : c.over_18 = "false")
             urls == [i \in 1..Len(safe) |-> safe[i].url]
         IN  Reverse(urls) \o OfferedUpTo(feed, json.after, k - 1)
\* the pages the stream has been given so far
PagesFetched ==
    IF posts.state = "Fetching" \/ posts.error THEN posts.requests - 1
                                               ELSE posts.requests

\* C30: what the stream has emitted, followed by what it still holds of the
\* current page in the order it will leave, is exactly the references of the
\* pages fetched so far, each page reversed and the pages in their order;
\* and the stream leaves a page only when nothing of it is held any more.
C30_EmittedInOrderOnce ==
    phase \in {"fetch", "scan"} =>
        /\ listing \o Reverse(posts.fetched)
              = OfferedUpTo(posts.feed, NoToken, PagesFetched)
        /\ posts.state # "Fetched" => posts.fetched = <<>>

\* two pages were fetched and emitted: a and b of the first page in reverse,
\* the child with over_18 = true left out, then c of the second page
C30_Witness ==
    /\ phase = "fetch"
    /\ posts.requests = 2
    /\ posts.fetched = <<>>
    /\ listing = <<"a", "b", "c">>
    /\ Len(posts.feed[NoToken].children) = 3
    /\ posts.feed[NoToken].children[1].url = "b"

\* C31: whenever the stream goes from Fetching to Fetched its buffer holds
\* one reference or more, whatever the page was, also a page all of whose
\* children are over_18 or lack a field.
C31_FetchedNonEmpty ==
    [][ (SameStream /\ posts.state = "Fetching" /\ posts'.state = "Fetched") =>
            posts'.fetched # <<>> ]_vars

\* C32: the first page request of a stream carries no token and every later
\* one carries the token of the page the request before it was answered
\* with; next_page_id is set to a page's token in the step Fetching ->
\* Fetched and is left as it is by every other step of the stream.
C32_TokenCarried ==
    [][ (SameStream /\ posts' # posts) =>
          /\ (posts.state = "NeedMore" /\ posts'.state = "Fetching") =>
                posts'.asked = IF posts.requests = 0 THEN NoToken
                               ELSE posts.feed[posts.asked].after
          /\ (posts.state = "Fetching" /\ posts'.state = "Fetched") =>
                posts'.next_page_id = posts.feed[posts.asked].after
          /\ ~(posts.state = "Fetching" /\ posts'.state = "Fetched") =>
                posts'.next_page_id = posts.next_page_id ]_vars

\* the second page was asked for with the token of the first and answered
\* with a page that has none
C32_Witness ==
    /\ SameStream
    /\ posts.requests = 2
    /\ posts.asked = "t1"
    /\ posts.state = "Fetched"
    /\ posts.next_page_id = NoToken

\* C33: when a run ends through its scan of the images directory, every
\* reference whose file make_filename(u) is in the directory at that scan is
\* one the downloaded ledger contains: what the scan recovers from the file
\* name is the key contains(u) looks up.
C33_StoredAreDownloaded ==
    [][ (phase = "scan" /\ phase' = "idle") =>
            \A u \in Urls :
                MakeFilename(u) \in files =>
                    Contains(persisted'.downloaded, u) ]_vars

\* the first run has stored two images and its scan has put both into the
\* downloaded ledger, which held nothing before
C33_Witness ==
    /\ runs = 1
    /\ phase = "idle"
    /\ result = "ok"
    /\ gotten = 0
    /\ Cardinality(files) = 2
    /\ \A u \in Urls : MakeFilename(u) \in files =>
                           Contains(persisted.downloaded, u)
    /\ Cardinality(persisted.downloaded) = 2

\* every classifier fetch_one has was run on the body and returned an error
\* that is no InvalidAspectRatio
NoneAccepted ==
    /\ Len(one.ran) = Len(Classifiers)
    /\ \A i \in 1..Len(one.ran) : one.ran[i][2] = "err"

\* C34: when none of the classifiers takes the body, and the image
\* classifier did not reject it for its ratio, fetch_one returns Err with
\* the url marked invalid, no file written under the url's name, gotten not
\* incremented and no nested fetch_multiple run.
C34_UnrecognizedIsInvalid ==
    NoneAccepted =>
        /\ ~one.file
        /\ ~one.counted
        /\ ~one.expanded
        /\ one.step \in {"return", "done"}
        /\ one.result = "Err"
        /\ one.step = "done" => one.marked

\* a body that is neither an image nor a gallery page went through the
\* three classifiers and its url was marked invalid
C34_Witness ==
    /\ one.body = "junk"
    /\ one.step = "done"
    /\ one.ran = << <<"image", "err">>, <<"imgur", "err">>, <<"reddit", "err">> >>
    /\ one.marked
    /\ one.result = "Err"

\* C35: the images directory never holds more than MAX_CACHED files, at any
\* point of a run and after it, whatever the order of the writes and of the
\* checks of the counter.
C35_StoreWithinTarget == Cardinality(files) <= MaxCached

\* C36: every entry the ledger file held before a run is in the file after
\* the store() of that run has returned Ok, whatever the open and the reads
\* of load() came to at the start of the run.
C36_LedgerOnlyGrows ==
    [][ (led'.op = "store" /\ led'.ret = "Ok") =>
            ReadAll(led.file.text) \subseteq ReadAll(led'.file.text) ]_vars

\* C37: every acquisition run returns, also when a gallery page lists its
\* own url and when two gallery pages list each other.
C37_RunTerminates == <>(nest.pc = "returned")

\* C38: in one cycle of find_new_background do_fetch is called at most once:
\* when the first pick found no valid image, before the second pick and
\* before any background is set; otherwise after the background has been
\* set; and a cycle that returns Ok has called it exactly once.
C38_FetchOncePerCycle ==
    [][ /\ app'.fetches <= 1
        /\ app'.fetches > app.fetches =>
              \/ /\ app.first = "NoValidImage"
                 /\ app.picks = 1
                 /\ ~app.set
              \/ /\ app.first = "Ok"
                 /\ app.picks = 1
                 /\ app.set
        /\ (app'.pc = "ret" /\ app'.ret = "Ok") => app'.fetches = 1
        /\ app'.picks = 2 => (app'.first = "NoValidImage" /\ app'.fetches = 1)
      ]_vars

\* a cycle whose first pick found nothing has fetched, picked again, set the
\* background and returned Ok without a second fetch
C38_Witness ==
    /\ app.pc = "ret"
    /\ app.ret = "Ok"
    /\ app.first = "NoValidImage"
    /\ app.picks = 2
    /\ app.set
    /\ app.fetches = 1

\* C39: an Err of find_new_background is logged and the loop goes on to
\* wait for messages; main returns only on Quit or when the channel is
\* disconnected; a cycle starts only at the start, on ChangeNow and on the
\* timeout; CopyImage leaves the loop waiting.
C39_LoopSurvives ==
    [][ /\ (app.pc = "ret" /\ app.ret = "Err" /\ app'.pc # "ret") =>
              (app'.pc = "wait" /\ app'.logged = "error")
        /\ (app'.pc = "ended" /\ app.pc # "ended") =>
              /\ app.pc = "wait"
              /\ app'.last \in {"Quit", "Disconnected"}
        /\ (app'.pc = "loop" /\ app.pc # "loop") =>
              /\ app.pc = "wait"
              /\ app'.last \in {"ChangeNow", "Timeout"}
        /\ (app.pc = "wait" /\ app'.pc = "wait" /\ app'.last # app.last) =>
               app'.last = "CopyImage"
        /\ (app.pc = "wait" /\ app'.queue # app.queue
                            /\ app'.last = "CopyImage") => app'.pc = "wait"
        /\ (app'.pc = "read" /\ app.pc # "read") => app.pc = "loop" ]_vars

\* a cycle that ChangeNow had started failed in its fetch, the loop went on
\* to wait, received CopyImage and is waiting still
C39_Witness ==
    /\ app.pc = "wait"
    /\ app.trigger = "ChangeNow"
    /\ app.ret = "Err"
    /\ app.fetches = 1
    /\ app.last = "CopyImage"
    /\ app.tray = "up"

====
